---- MODULE Spec2Model ----
(***************************************************************************)
(* Garmin Connect MCP client (src/index.js): a tool gateway that answers   *)
(* list-tools with a static catalog and forwards call-tool invocations as  *)
(* HTTPS POST requests to a remote API.                                    *)
(*                                                                         *)
(* Text is modelled as a sequence of tokens.  A token is one character, or *)
(* a run of characters that no operation of the program looks inside (a    *)
(* word of a fixed message, a host name, a path segment).  Response bodies *)
(* are sequences of bytes: one token per ASCII character, and the two      *)
(* bytes BYTE_C3, BYTE_A9 of the UTF-8 encoding of U+00E9.                 *)
(***************************************************************************)
EXTENDS Integers, Sequences, FiniteSets, TLC

(***************************************************************************)
(* Bounds of the model.                                                    *)
(***************************************************************************)
MaxCalls == 1
\* invocations of one session
MaxSessionCalls == 2

(***************************************************************************)
(* JavaScript values                                                       *)
(***************************************************************************)
\* the value `undefined` of an unset environment variable or a missing argument
Undefined == <<"<undefined>">>
EmptyString == <<>>

\* !v for a string-or-undefined value: undefined and "" are falsy
Falsy(v) == v = Undefined \/ v = EmptyString

\* a || b on string-or-undefined values
OrElse(a, b) == IF Falsy(a) THEN b ELSE a

RECURSIVE ContainsAt(_, _, _)
ContainsAt(hay, needle, i) ==
  IF i + Len(needle) - 1 > Len(hay) THEN FALSE
  ELSE IF SubSeq(hay, i, i + Len(needle) - 1) = needle THEN TRUE
  ELSE ContainsAt(hay, needle, i + 1)

\* String.prototype.includes
Contains(hay, needle) == ContainsAt(hay, needle, 1)

(***************************************************************************)
(* JSON values: null, booleans, naturals, strings, arrays, and objects as  *)
(* sequences of <<key, value>> in property order.                          *)
(***************************************************************************)
JNull == [t |-> "null"]
JBool(b) == [t |-> "bool", v |-> b]
JNum(n) == [t |-> "num", v |-> n]
JStr(s) == [t |-> "str", v |-> s]
JArr(a) == [t |-> "arr", v |-> a]
JObj(m) == [t |-> "obj", v |-> m]

Digits == <<"0", "1", "2", "3", "4", "5", "6", "7", "8", "9">>
DigitSet == {Digits[k] : k \in 1..10}
DigitValue(d) == (CHOOSE k \in 1..10 : Digits[k] = d) - 1

RECURSIVE NumberToString(_)
\* String(n) for a natural number
NumberToString(n) ==
  IF n < 10 THEN <<Digits[n + 1]>>
  ELSE NumberToString(n \div 10) \o <<Digits[(n % 10) + 1]>>

\* the characters JSON.stringify escapes, and the characters JSON.parse
\* accepts after a backslash
Quote == "\""
Backslash == "\\"
Newline == "\n"

RECURSIVE EscapeString(_)
EscapeString(s) ==
  IF s = <<>> THEN <<>>
  ELSE (CASE Head(s) = Quote -> <<Backslash, Quote>>
          [] Head(s) = Backslash -> <<Backslash, Backslash>>
          [] Head(s) = Newline -> <<Backslash, "n">>
          [] OTHER -> <<Head(s)>>) \o EscapeString(Tail(s))

QuoteString(s) == <<Quote>> \o EscapeString(s) \o <<Quote>>

RECURSIVE Spaces(_)
Spaces(n) == IF n = 0 THEN <<>> ELSE <<" ">> \o Spaces(n - 1)

RECURSIVE Stringify(_, _, _)
RECURSIVE StringifyItems(_, _, _, _, _)
\* the members of an array (isObj = FALSE) or object, from the k-th on
StringifyItems(m, k, isObj, indent, level) ==
  IF k > Len(m) THEN <<>>
  ELSE (IF indent > 0 THEN <<Newline>> \o Spaces(indent * (level + 1)) ELSE <<>>)
       \o (IF isObj
           THEN QuoteString(m[k][1]) \o <<":">>
                \o (IF indent > 0 THEN <<" ">> ELSE <<>>)
                \o Stringify(m[k][2], indent, level + 1)
           ELSE Stringify(m[k], indent, level + 1))
       \o (IF k < Len(m) THEN <<",">> ELSE <<>>)
       \o StringifyItems(m, k + 1, isObj, indent, level)

\* JSON.stringify(v, null, indent) at nesting depth level
Stringify(v, indent, level) ==
  CASE v.t = "null" -> <<"null">>
    [] v.t = "bool" -> IF v.v THEN <<"true">> ELSE <<"false">>
    [] v.t = "num" -> NumberToString(v.v)
    [] v.t = "str" -> QuoteString(v.v)
    [] v.t \in {"arr", "obj"} ->
         LET open == IF v.t = "obj" THEN "{" ELSE "["
             close == IF v.t = "obj" THEN "}" ELSE "]"
         IN IF v.v = <<>> THEN <<open, close>>
            ELSE <<open>> \o StringifyItems(v.v, 1, v.t = "obj", indent, level)
                 \o (IF indent > 0 THEN <<Newline>> \o Spaces(indent * level) ELSE <<>>)
                 \o <<close>>

\* JSON.stringify(v)
StringifyCompact(v) == Stringify(v, 0, 0)
\* JSON.stringify(v, null, 2)
StringifyPretty(v) == Stringify(v, 2, 0)

(***************************************************************************)
(* JSON.parse on a text.  The grammar covers whitespace, the literals,     *)
(* naturals, strings with the escapes \" \\ \n, arrays and objects; the    *)
(* sample texts of the model use nothing else.                             *)
(***************************************************************************)
Whitespace == {" ", Newline}
Fail == [ok |-> FALSE]
Ok(val, next) == [ok |-> TRUE, val |-> val, next |-> next]

RECURSIVE SkipWs(_, _)
SkipWs(s, i) == IF i <= Len(s) /\ s[i] \in Whitespace THEN SkipWs(s, i + 1) ELSE i

At(s, i) == IF i >= 1 /\ i <= Len(s) THEN s[i] ELSE "<eof>"

RECURSIVE ScanString(_, _, _)
\* the rest of a string literal, after its opening quote
ScanString(s, i, acc) ==
  CASE At(s, i) = "<eof>" -> Fail
    [] At(s, i) = Quote -> Ok(JStr(acc), i + 1)
    [] At(s, i) = Newline -> Fail
    [] At(s, i) = Backslash ->
         (CASE At(s, i + 1) \in {Quote, Backslash} ->
                 ScanString(s, i + 2, Append(acc, s[i + 1]))
            [] At(s, i + 1) = "n" -> ScanString(s, i + 2, Append(acc, Newline))
            [] OTHER -> Fail)
    [] OTHER -> ScanString(s, i + 1, Append(acc, s[i]))

RECURSIVE ScanDigits(_, _, _)
ScanDigits(s, i, acc) ==
  IF At(s, i) \in DigitSet
    THEN ScanDigits(s, i + 1, 10 * acc + DigitValue(s[i]))
    ELSE Ok(JNum(acc), i)

RECURSIVE HasKey(_, _)
HasKey(m, k) == m # <<>> /\ (Head(m)[1] = k \/ HasKey(Tail(m), k))

\* obj[k] = v: a repeated key keeps its first position and takes the last value
SetKey(m, k, v) ==
  IF HasKey(m, k)
    THEN [j \in 1..Len(m) |-> IF m[j][1] = k THEN <<k, v>> ELSE m[j]]
    ELSE Append(m, <<k, v>>)

RECURSIVE ParseValue(_, _)
RECURSIVE ParseMembers(_, _, _)
RECURSIVE ParseElements(_, _, _)

\* the members of an object; i is at the first character of a key
ParseMembers(s, i, acc) ==
  IF At(s, i) # Quote THEN Fail
  ELSE LET k == ScanString(s, i + 1, <<>>) IN
    IF ~k.ok THEN Fail
    ELSE LET c == SkipWs(s, k.next) IN
      IF At(s, c) # ":" THEN Fail
      ELSE LET v == ParseValue(s, c + 1) IN
        IF ~v.ok THEN Fail
        ELSE LET e == SkipWs(s, v.next)
                 m == SetKey(acc, k.val.v, v.val)
             IN CASE At(s, e) = "," -> ParseMembers(s, SkipWs(s, e + 1), m)
                  [] At(s, e) = "}" -> Ok(JObj(m), e + 1)
                  [] OTHER -> Fail

\* the elements of an array; i is before an element
ParseElements(s, i, acc) ==
  LET v == ParseValue(s, i) IN
    IF ~v.ok THEN Fail
    ELSE LET e == SkipWs(s, v.next)
             a == Append(acc, v.val)
         IN CASE At(s, e) = "," -> ParseElements(s, e + 1, a)
              [] At(s, e) = "]" -> Ok(JArr(a), e + 1)
              [] OTHER -> Fail

ParseValue(s, i0) ==
  LET i == SkipWs(s, i0)
      c == At(s, i)
  IN CASE c = "{" ->
            (LET j == SkipWs(s, i + 1) IN
               IF At(s, j) = "}" THEN Ok(JObj(<<>>), j + 1)
               ELSE ParseMembers(s, j, <<>>))
       [] c = "[" ->
            (LET j == SkipWs(s, i + 1) IN
               IF At(s, j) = "]" THEN Ok(JArr(<<>>), j + 1)
               ELSE ParseElements(s, i + 1, <<>>))
       [] c = Quote -> ScanString(s, i + 1, <<>>)
       [] c = "true" -> Ok(JBool(TRUE), i + 1)
       [] c = "false" -> Ok(JBool(FALSE), i + 1)
       [] c = "null" -> Ok(JNull, i + 1)
       [] c = "0" -> Ok(JNum(0), i + 1)
       [] c \in DigitSet -> ScanDigits(s, i, 0)
       [] OTHER -> Fail

\* JSON.parse(s): [ok |-> TRUE, val |-> v], or [ok |-> FALSE] where it throws
JSONParse(s) ==
  LET r == ParseValue(s, 1) IN
    IF r.ok /\ SkipWs(s, r.next) > Len(s)
      THEN [ok |-> TRUE, val |-> r.val]
      ELSE Fail

(***************************************************************************)
(* Buffer.prototype.toString(): UTF-8 decoding of ONE chunk.  A complete   *)
(* two-byte sequence decodes to its character; a lead byte without its     *)
(* continuation byte, and a continuation byte without its lead byte, each  *)
(* decode to U+FFFD.                                                       *)
(***************************************************************************)
BYTE_C3 == "<C3>"
BYTE_A9 == "<A9>"
CHAR_E9 == "U+00E9"
CHAR_FFFD == "U+FFFD"

RECURSIVE BufferToString(_)
BufferToString(b) ==
  IF b = <<>> THEN <<>>
  ELSE IF Head(b) = BYTE_C3 /\ Len(b) >= 2 /\ b[2] = BYTE_A9
    THEN <<CHAR_E9>> \o BufferToString(Tail(Tail(b)))
  ELSE IF Head(b) \in {BYTE_C3, BYTE_A9}
    THEN <<CHAR_FFFD>> \o BufferToString(Tail(b))
  ELSE <<Head(b)>> \o BufferToString(Tail(b))

(***************************************************************************)
(* The static tables.  A catalog entry is the object literal of the        *)
(* source: its name, its description as a text and its inputSchema as a    *)
(* JSON value with the members in source order.  The endpoint map is the   *)
(* object literal in property order, each path a text.                     *)
(***************************************************************************)
\* one `key: value` member of an object literal
Member(key, value) == <<<<key>>, value>>

\* the description of upload_workout, a template literal of 114 lines; a
\* character outside ASCII is written as its UTF-16 code units, \uXXXX
UploadWorkoutDescription ==
  << "Upload a workout to Garmin Connect. The workout must be a SINGLE JSON object starting directly with {",
     Quote, "workoutName", Quote, ": ...}. Do NOT wrap in arrays or ", Quote, "output",
     Quote, " objects.", Newline,
     Newline,
     "\\uD83E\\uDDE9 STRUCTURE GARMIN REQUIRED:", Newline,
     Newline,
     "Root structure:", Newline,
     "{", Newline,
     "  ", Quote, "workoutName", Quote, ": ", Quote, "YYYY-MM-DD - Workout Name", Quote,
     ",", Newline,
     "  ", Quote, "sportType", Quote, ": {", Quote, "sportTypeId", Quote, ": 1, ", Quote,
     "sportTypeKey", Quote, ": ", Quote, "running", Quote, ", ", Quote, "displayOrder",
     Quote, ": 1},", Newline,
     "  ", Quote, "author", Quote, ": {},", Newline,
     "  ", Quote, "estimatedDurationInSecs", Quote,
     ": <sum of all executable durations including repetitions>,", Newline,
     "  ", Quote, "workoutSegments", Quote, ": [{ ", Quote, "segmentOrder", Quote, ": 1, ",
     Quote, "sportType", Quote, ": {...}, ", Quote, "workoutSteps", Quote, ": [...] }]",
     Newline,
     "}", Newline,
     Newline,
     "\\uD83E\\uDDF1 STEP TYPES:", Newline,
     Newline,
     "ExecutableStepDTO (single step):", Newline,
     "- type: ", Quote, "ExecutableStepDTO", Quote, Newline,
     "- stepOrder: >=1 (sequential)", Newline,
     "- stepType: {stepTypeId, stepTypeKey, displayOrder}", Newline,
     "- endCondition: {conditionTypeId, conditionTypeKey, displayOrder, displayable}",
     Newline,
     "- endConditionValue: number (seconds or meters)", Newline,
     "- targetType: {workoutTargetTypeId, workoutTargetTypeKey, displayOrder}", Newline,
     "- strokeType: {strokeTypeId: 0, displayOrder: 0}", Newline,
     "- equipmentType: {equipmentTypeId: 0, displayOrder: 0}", Newline,
     "- numberOfIterations: 1", Newline,
     "- workoutSteps: []", Newline,
     "- smartRepeat: false", Newline,
     "FORBIDDEN on ExecutableStepDTO: workoutSteps with content, smartRepeat=true, numberOfIterations != 1",
     Newline,
     Newline,
     "RepeatGroupDTO (repeating group):", Newline,
     "- type: ", Quote, "RepeatGroupDTO", Quote, Newline,
     "- stepOrder: >=1 (sequential)", Newline,
     "- stepType: {stepTypeId: 6, stepTypeKey: ", Quote, "repeat", Quote,
     ", displayOrder: 6}", Newline,
     "- numberOfIterations: >=1 (number of repeats)", Newline,
     "- endCondition: {conditionTypeId: 7, conditionTypeKey: ", Quote, "iterations", Quote,
     ", displayOrder: 7, displayable: false}", Newline,
     "- endConditionValue: number of iterations", Newline,
     "- targetType: {workoutTargetTypeId: 1, workoutTargetTypeKey: ", Quote, "no.target",
     Quote, ", displayOrder: 1}", Newline,
     "- strokeType: {strokeTypeId: 0, displayOrder: 0}", Newline,
     "- equipmentType: {equipmentTypeId: 0, displayOrder: 0}", Newline,
     "- smartRepeat: false", Newline,
     "- workoutSteps: [ ...child steps... ]", Newline,
     "FORBIDDEN on RepeatGroupDTO: targetValueOne, targetValueTwo", Newline,
     Newline,
     "\\u2699\\uFE0F MAPPINGS GARMIN:", Newline,
     Newline,
     "stepType:", Newline,
     "- warmup: stepTypeId=1, stepTypeKey=", Quote, "warmup", Quote, ", displayOrder=1",
     Newline,
     "- cooldown: stepTypeId=2, stepTypeKey=", Quote, "cooldown", Quote,
     ", displayOrder=2", Newline,
     "- interval: stepTypeId=3, stepTypeKey=", Quote, "interval", Quote,
     ", displayOrder=3", Newline,
     "- recovery: stepTypeId=4, stepTypeKey=", Quote, "recovery", Quote,
     ", displayOrder=4", Newline,
     "- repeat: stepTypeId=6, stepTypeKey=", Quote, "repeat", Quote, ", displayOrder=6",
     Newline,
     Newline,
     "endCondition:", Newline,
     "- time: conditionTypeId=2, conditionTypeKey=", Quote, "time", Quote,
     ", displayOrder=2, displayable=true", Newline,
     "- distance: conditionTypeId=3, conditionTypeKey=", Quote, "distance", Quote,
     ", displayOrder=3, displayable=true", Newline,
     "- iterations: conditionTypeId=7, conditionTypeKey=", Quote, "iterations", Quote,
     ", displayOrder=7, displayable=false", Newline,
     Newline,
     "targetType:", Newline,
     "- no.target: workoutTargetTypeId=1, workoutTargetTypeKey=", Quote, "no.target",
     Quote, ", displayOrder=1", Newline,
     "- pace.zone: workoutTargetTypeId=6, workoutTargetTypeKey=", Quote, "pace.zone",
     Quote, ", displayOrder=6", Newline,
     Newline,
     "\\uD83E\\uDDED PACE ZONE CONVERSION (CRITICAL):", Newline,
     Newline,
     "For any pace in ", Quote, "m:ss/km", Quote, " format (e.g., 3:50/km):", Newline,
     Newline,
     "1. Parse: minutes = integer before ", Quote, ":", Quote,
     ", seconds = integer after ", Quote, ":", Quote, Newline,
     "2. Calculate: paceSec = (minutes \\u00D7 60) + seconds", Newline,
     "3. If paceSec < 60 or paceSec > 420 \\u2192 use no.target instead", Newline,
     "4. Create \\u00B15s band:", Newline,
     "   - lowerSec = paceSec + 5 (slower, higher seconds)", Newline,
     "   - upperSec = paceSec - 5 (faster, lower seconds)", Newline,
     "5. Convert to m/s (Garmin requires m/s format):", Newline,
     "   - lowerMs = 1000 / lowerSec (slower pace = lower m/s)", Newline,
     "   - upperMs = 1000 / upperSec (faster pace = higher m/s)", Newline,
     "6. Apply: targetValueOne = upperMs, targetValueTwo = lowerMs", Newline,
     Newline,
     "Example: 3:50/km", Newline,
     "- paceSec = 230", Newline,
     "- lowerSec = 235, upperSec = 225", Newline,
     "- lowerMs = 1000/235 = 4.255, upperMs = 1000/225 = 4.444", Newline,
     "- targetValueOne = 4.444 (faster), targetValueTwo = 4.255 (slower)", Newline,
     Newline,
     "CRITICAL: targetValueOne > targetValueTwo (faster = higher m/s)", Newline,
     Newline,
     "IMPORTANT RULES:", Newline,
     "- Never use speed.zone if you want min/km display - use pace.zone", Newline,
     "- Never set pace target on warmup/recovery/cooldown", Newline,
     "- Never set pace target on RepeatGroupDTO level", Newline,
     "- zoneNumber: can be 1 or null (both work)", Newline,
     "- targetValueUnit: should be null for pace zones", Newline,
     Newline,
     "\\uD83E\\uDDE0 DURATIONS, DISTANCES, SUMS:", Newline,
     "- time: in seconds", Newline,
     "- distance: in meters", Newline,
     "- If distance + pace zone: estimated duration = distance_m / ((targetValueOne + targetValueTwo) / 2)",
     Newline,
     "- estimatedDurationInSecs: exact sum of all executable durations, repetitions included",
     Newline,
     "  Example: warmup 900s + (3\\u00D7100m + 3\\u00D745s) + (12\\u00D7400m + 12\\u00D775s) + cooldown 600s = 3939s",
     Newline,
     Newline,
     "\\uD83E\\uDDE9 COMPOSITION RULES:", Newline,
     "- ", Quote, "interval", Quote, ", ", Quote, "vma", Quote, ", ", Quote, "hills",
     Quote, " \\u2192 require at least one RepeatGroupDTO", Newline,
     "- ", Quote, "tempo", Quote, ", ", Quote, "endurance", Quote, ", ", Quote, "easy",
     Quote, ", ", Quote, "long_run", Quote,
     " \\u2192 no RepeatGroupDTO (only ExecutableStepDTO)", Newline,
     "- Defaults if not specified: Warmup=300s, Cooldown=300s", Newline,
     "- ", Quote, "10x(30/30)", Quote,
     " = RepeatGroupDTO (10 iterations: 30s interval + 30s recovery)", Newline,
     "- ", Quote, "2x10x(30/30) + 3' between series", Quote,
     " = RepeatGroupDTO + 180s recovery + RepeatGroupDTO", Newline,
     "- ", Quote, "Lignes droites", Quote,
     " = RepeatGroupDTO 3\\u00D7 (100m interval + 45s recovery), no target", Newline,
     Newline,
     "COMMON ERRORS TO AVOID:", Newline,
     "- Do NOT include workoutId, ownerId, stepId, childStepId (auto-cleaned if auto_clean=true)",
     Newline,
     "- Do NOT wrap in array or ", Quote, "output", Quote,
     " object - send workout object directly", Newline,
     "- Do NOT use ", Quote, "kind", Quote, " field - it doesn't exist", Newline,
     "- Ensure all IDs are present (stepTypeId, conditionTypeId, etc.), not just keys",
     Newline,
     "- targetValueOne must be > targetValueTwo for pace zones", Newline,
     Newline,
     "Generated IDs will be automatically cleaned if auto_clean=true (default)." >>

\* const tools = [ ... ]
tools ==
  << [name |-> "upload_workout",
      description |-> UploadWorkoutDescription,
      inputSchema |->
        JObj(<<
          Member("type", JStr(<<"object">>)),
          Member("properties", JObj(<<
            Member("workout_json", JObj(<<
              Member("type", JArr(<<JStr(<<"object">>), JStr(<<"string">>)>>)),
              Member("description", JStr(<<
                "Workout in JSON format (string or object). Must follow Garmin API structure with all required fields. Send the workout object directly, not wrapped in array or 'output' object.",
                Newline,
                Newline,
                "Example minimal structure:", Newline,
                "{", Newline,
                "  ", Quote, "workoutName", Quote, ": ", Quote, "My Workout", Quote, ",",
                Newline,
                "  ", Quote, "sportType", Quote, ": {", Quote, "sportTypeId", Quote,
                ": 1, ", Quote, "sportTypeKey", Quote, ": ", Quote, "running", Quote, ", ",
                Quote, "displayOrder", Quote, ": 1},", Newline,
                "  ", Quote, "author", Quote, ": {},", Newline,
                "  ", Quote, "workoutSegments", Quote, ": [{", Newline,
                "    ", Quote, "segmentOrder", Quote, ": 1,", Newline,
                "    ", Quote, "sportType", Quote, ": {", Quote, "sportTypeId", Quote,
                ": 1, ", Quote, "sportTypeKey", Quote, ": ", Quote, "running", Quote, ", ",
                Quote, "displayOrder", Quote, ": 1},", Newline,
                "    ", Quote, "workoutSteps", Quote, ": [...]", Newline,
                "  }]", Newline,
                "}">>))>>)),
            Member("auto_clean", JObj(<<
              Member("type", JStr(<<"boolean">>)),
              Member("description", JStr(<<
                "If true (default), automatically clean the workout by removing generated IDs (workoutId, stepId, childStepId, ownerId) before upload.">>)),
              Member("default", JBool(TRUE))>>))>>)),
          Member("required", JArr(<<JStr(<<"workout_json">>)>>))>>)],
     [name |-> "get_workouts",
      description |-> <<"Get list of workouts">>,
      inputSchema |->
        JObj(<<
          Member("type", JStr(<<"object">>)),
          Member("properties", JObj(<<
            Member("start", JObj(<<Member("type", JStr(<<"number">>)), Member("default", JNum(0))>>)),
            Member("limit", JObj(<<
              Member("type", JStr(<<"number">>)),
              Member("default", JNum(10))>>))>>))>>)],
     [name |-> "get_workout_by_id",
      description |-> <<"Get a workout by ID">>,
      inputSchema |->
        JObj(<<
          Member("type", JStr(<<"object">>)),
          Member("properties", JObj(<<
            Member("workout_id", JObj(<<
              Member("type", JArr(<<JStr(<<"number">>), JStr(<<"string">>)>>)),
              Member("description", JStr(<<"Workout ID">>))>>))>>)),
          Member("required", JArr(<<JStr(<<"workout_id">>)>>))>>)],
     [name |-> "prepare_workout",
      description |-> <<"Prepare a workout for upload by cleaning it">>,
      inputSchema |->
        JObj(<<
          Member("type", JStr(<<"object">>)),
          Member("properties", JObj(<<
            Member("workout_json", JObj(<<
              Member("type", JArr(<<JStr(<<"object">>), JStr(<<"string">>)>>)),
              Member("description", JStr(<<"Workout JSON to clean">>))>>))>>)),
          Member("required", JArr(<<JStr(<<"workout_json">>)>>))>>)],
     [name |-> "get_activities",
      description |-> 
        <<"Get list of activities. Returns simplified activities by default (~200 tokens each) with only essential fields for analysis. Set simplify=false for full data (~1000 tokens each). Limited to 20 activities maximum.">>,
      inputSchema |->
        JObj(<<
          Member("type", JStr(<<"object">>)),
          Member("properties", JObj(<<
            Member("start", JObj(<<Member("type", JStr(<<"number">>)), Member("default", JNum(0))>>)),
            Member("limit", JObj(<<
              Member("type", JStr(<<"number">>)),
              Member("default", JNum(10))>>)),
            Member("activitytype", JObj(<<
              Member("type", JStr(<<"string">>)),
              Member("description", JStr(<<"Filter by activity type">>))>>)),
            Member("simplify", JObj(<<
              Member("type", JStr(<<"boolean">>)),
              Member("default", JBool(TRUE)),
              Member("description", JStr(<<
                "If true (default), returns only essential fields for analysis (~200 tokens/activity). If false, returns full activity data (~1000 tokens/activity)">>))>>))>>))>>)],
     [name |-> "get_last_activity",
      description |-> <<"Get the most recent activity">>,
      inputSchema |->
        JObj(<<
          Member("type", JStr(<<"object">>)),
          Member("properties", JObj(<<>>))>>)],
     [name |-> "get_activities_by_date",
      description |-> <<"Get activities within a date range">>,
      inputSchema |->
        JObj(<<
          Member("type", JStr(<<"object">>)),
          Member("properties", JObj(<<
            Member("startdate", JObj(<<
              Member("type", JStr(<<"string">>)),
              Member("description", JStr(<<"Start date (YYYY-MM-DD)">>))>>)),
            Member("enddate", JObj(<<
              Member("type", JStr(<<"string">>)),
              Member("description", JStr(<<"End date (YYYY-MM-DD)">>))>>)),
            Member("activitytype", JObj(<<Member("type", JStr(<<"string">>))>>)),
            Member("sortorder", JObj(<<
              Member("type", JStr(<<"string">>)),
              Member("enum", JArr(<<JStr(<<"asc">>), JStr(<<"desc">>)>>))>>)),
            Member("fields", JObj(<<
              Member("type", JStr(<<"array">>)),
              Member("items", JObj(<<Member("type", JStr(<<"string">>))>>)),
              Member("description", JStr(<<"List of fields to include in the response">>))>>))>>)),
          Member("required", JArr(<<JStr(<<"startdate">>), JStr(<<"enddate">>)>>))>>)],
     [name |-> "get_activity",
      description |-> <<"Get a specific activity by ID">>,
      inputSchema |->
        JObj(<<
          Member("type", JStr(<<"object">>)),
          Member("properties", JObj(<<
            Member("activity_id", JObj(<<
              Member("type", JArr(<<JStr(<<"number">>), JStr(<<"string">>)>>)),
              Member("description", JStr(<<"Activity ID">>))>>))>>)),
          Member("required", JArr(<<JStr(<<"activity_id">>)>>))>>)],
     [name |-> "get_activity_details",
      description |-> <<"Get comprehensive activity details">>,
      inputSchema |->
        JObj(<<
          Member("type", JStr(<<"object">>)),
          Member("properties", JObj(<<
            Member("activity_id", JObj(<<
              Member("type", JArr(<<JStr(<<"number">>), JStr(<<"string">>)>>)),
              Member("description", JStr(<<"Activity ID">>))>>)),
            Member("maxchart", JObj(<<
              Member("type", JStr(<<"number">>)),
              Member("default", JNum(2000))>>)),
            Member("maxpoly", JObj(<<
              Member("type", JStr(<<"number">>)),
              Member("default", JNum(4000))>>))>>)),
          Member("required", JArr(<<JStr(<<"activity_id">>)>>))>>)],
     [name |-> "get_activities_fordate",
      description |-> <<"Get activities for a specific date">>,
      inputSchema |->
        JObj(<<
          Member("type", JStr(<<"object">>)),
          Member("properties", JObj(<<
            Member("date", JObj(<<
              Member("type", JStr(<<"string">>)),
              Member("description", JStr(<<"Date (YYYY-MM-DD)">>))>>))>>)),
          Member("required", JArr(<<JStr(<<"date">>)>>))>>)],
     [name |-> "get_daily_summary",
      description |-> <<"Get daily health summary">>,
      inputSchema |->
        JObj(<<
          Member("type", JStr(<<"object">>)),
          Member("properties", JObj(<<
            Member("date", JObj(<<
              Member("type", JStr(<<"string">>)),
              Member("description", JStr(<<"Date (YYYY-MM-DD)">>))>>))>>))>>)],
     [name |-> "get_heart_rate_data",
      description |-> <<"Get heart rate data">>,
      inputSchema |->
        JObj(<<
          Member("type", JStr(<<"object">>)),
          Member("properties", JObj(<<
            Member("date", JObj(<<
              Member("type", JStr(<<"string">>)),
              Member("description", JStr(<<"Date (YYYY-MM-DD)">>))>>))>>)),
          Member("required", JArr(<<JStr(<<"date">>)>>))>>)],
     [name |-> "get_sleep_data",
      description |-> <<"Get sleep data">>,
      inputSchema |->
        JObj(<<
          Member("type", JStr(<<"object">>)),
          Member("properties", JObj(<<
            Member("date", JObj(<<
              Member("type", JStr(<<"string">>)),
              Member("description", JStr(<<"Date (YYYY-MM-DD)">>))>>))>>)),
          Member("required", JArr(<<JStr(<<"date">>)>>))>>)],
     [name |-> "get_stress_data",
      description |-> <<"Get stress data">>,
      inputSchema |->
        JObj(<<
          Member("type", JStr(<<"object">>)),
          Member("properties", JObj(<<
            Member("date", JObj(<<
              Member("type", JStr(<<"string">>)),
              Member("description", JStr(<<"Date (YYYY-MM-DD)">>))>>))>>)),
          Member("required", JArr(<<JStr(<<"date">>)>>))>>)],
     [name |-> "get_body_battery",
      description |-> <<"Get body battery data">>,
      inputSchema |->
        JObj(<<
          Member("type", JStr(<<"object">>)),
          Member("properties", JObj(<<
            Member("startdate", JObj(<<
              Member("type", JStr(<<"string">>)),
              Member("description", JStr(<<"Start date (YYYY-MM-DD)">>))>>)),
            Member("enddate", JObj(<<
              Member("type", JStr(<<"string">>)),
              Member("description", JStr(<<"End date (YYYY-MM-DD)">>))>>))>>)),
          Member("required", JArr(<<JStr(<<"startdate">>)>>))>>)],
     [name |-> "get_resting_heart_rate",
      description |-> <<"Get resting heart rate">>,
      inputSchema |->
        JObj(<<
          Member("type", JStr(<<"object">>)),
          Member("properties", JObj(<<
            Member("date", JObj(<<
              Member("type", JStr(<<"string">>)),
              Member("description", JStr(<<"Date (YYYY-MM-DD)">>))>>))>>)),
          Member("required", JArr(<<JStr(<<"date">>)>>))>>)],
     [name |-> "get_hrv_data",
      description |-> <<"Get HRV (Heart Rate Variability) data">>,
      inputSchema |->
        JObj(<<
          Member("type", JStr(<<"object">>)),
          Member("properties", JObj(<<
            Member("date", JObj(<<
              Member("type", JStr(<<"string">>)),
              Member("description", JStr(<<"Date (YYYY-MM-DD)">>))>>))>>)),
          Member("required", JArr(<<JStr(<<"date">>)>>))>>)],
     [name |-> "get_training_readiness",
      description |-> <<"Get training readiness score">>,
      inputSchema |->
        JObj(<<
          Member("type", JStr(<<"object">>)),
          Member("properties", JObj(<<
            Member("date", JObj(<<
              Member("type", JStr(<<"string">>)),
              Member("description", JStr(<<"Date (YYYY-MM-DD)">>))>>))>>)),
          Member("required", JArr(<<JStr(<<"date">>)>>))>>)],
     [name |-> "get_steps_data",
      description |-> <<"Get steps data">>,
      inputSchema |->
        JObj(<<
          Member("type", JStr(<<"object">>)),
          Member("properties", JObj(<<
            Member("date", JObj(<<
              Member("type", JStr(<<"string">>)),
              Member("description", JStr(<<"Date (YYYY-MM-DD)">>))>>))>>)),
          Member("required", JArr(<<JStr(<<"date">>)>>))>>)],
     [name |-> "get_respiration_data",
      description |-> <<"Get respiration data">>,
      inputSchema |->
        JObj(<<
          Member("type", JStr(<<"object">>)),
          Member("properties", JObj(<<
            Member("date", JObj(<<
              Member("type", JStr(<<"string">>)),
              Member("description", JStr(<<"Date (YYYY-MM-DD)">>))>>))>>)),
          Member("required", JArr(<<JStr(<<"date">>)>>))>>)],
     [name |-> "get_spo2_data",
      description |-> <<"Get SpO2 (blood oxygen) data">>,
      inputSchema |->
        JObj(<<
          Member("type", JStr(<<"object">>)),
          Member("properties", JObj(<<
            Member("date", JObj(<<
              Member("type", JStr(<<"string">>)),
              Member("description", JStr(<<"Date (YYYY-MM-DD)">>))>>))>>)),
          Member("required", JArr(<<JStr(<<"date">>)>>))>>)],
     [name |-> "get_max_metrics",
      description |-> <<"Get VO2 Max and Fitness Age">>,
      inputSchema |->
        JObj(<<
          Member("type", JStr(<<"object">>)),
          Member("properties", JObj(<<
            Member("date", JObj(<<
              Member("type", JStr(<<"string">>)),
              Member("description", JStr(<<"Date (YYYY-MM-DD)">>))>>))>>)),
          Member("required", JArr(<<JStr(<<"date">>)>>))>>)],
     [name |-> "get_training_status",
      description |-> <<"Get training status and load">>,
      inputSchema |->
        JObj(<<
          Member("type", JStr(<<"object">>)),
          Member("properties", JObj(<<
            Member("date", JObj(<<
              Member("type", JStr(<<"string">>)),
              Member("description", JStr(<<"Date (YYYY-MM-DD)">>))>>))>>)),
          Member("required", JArr(<<JStr(<<"date">>)>>))>>)],
     [name |-> "get_endurance_score",
      description |-> <<"Get endurance score">>,
      inputSchema |->
        JObj(<<
          Member("type", JStr(<<"object">>)),
          Member("properties", JObj(<<
            Member("startdate", JObj(<<
              Member("type", JStr(<<"string">>)),
              Member("description", JStr(<<"Start date (YYYY-MM-DD)">>))>>)),
            Member("enddate", JObj(<<
              Member("type", JStr(<<"string">>)),
              Member("description", JStr(<<"End date (YYYY-MM-DD)">>))>>))>>)),
          Member("required", JArr(<<JStr(<<"startdate">>)>>))>>)],
     [name |-> "get_race_predictions",
      description |-> <<"Get race time predictions">>,
      inputSchema |->
        JObj(<<
          Member("type", JStr(<<"object">>)),
          Member("properties", JObj(<<
            Member("startdate", JObj(<<
              Member("type", JStr(<<"string">>)),
              Member("description", JStr(<<"Start date (YYYY-MM-DD)">>))>>)),
            Member("enddate", JObj(<<
              Member("type", JStr(<<"string">>)),
              Member("description", JStr(<<"End date (YYYY-MM-DD)">>))>>)),
            Member("prediction_type", JObj(<<
              Member("type", JStr(<<"string">>)),
              Member("enum", JArr(<<JStr(<<"latest">>), JStr(<<"daily">>)>>))>>))>>))>>)] >>

EndpointEntries ==
  << <<"upload_workout", <<"/", "api", "/", "workout", "/", "upload_workout">>>>,
     <<"get_workouts", <<"/", "api", "/", "workout", "/", "get_workouts">>>>,
     <<"get_workout_by_id", <<"/", "api", "/", "workout", "/", "get_workout_by_id">>>>,
     <<"prepare_workout", <<"/", "api", "/", "workout", "/", "prepare_workout">>>>,
     <<"get_activities", <<"/", "api", "/", "activities", "/", "get_activities">>>>,
     <<"get_last_activity", <<"/", "api", "/", "activities", "/", "get_last_activity">>>>,
     <<"get_activities_by_date", <<"/", "api", "/", "activities", "/", "get_activities_by_date">>>>,
     <<"get_activity", <<"/", "api", "/", "activities", "/", "get_activity">>>>,
     <<"get_activity_details", <<"/", "api", "/", "activities", "/", "get_activity_details">>>>,
     <<"get_activities_fordate", <<"/", "api", "/", "activities", "/", "get_activities_fordate">>>>,
     <<"get_daily_summary", <<"/", "api", "/", "health", "/", "get_daily_summary">>>>,
     <<"get_heart_rate_data", <<"/", "api", "/", "health", "/", "get_heart_rate_data">>>>,
     <<"get_sleep_data", <<"/", "api", "/", "health", "/", "get_sleep_data">>>>,
     <<"get_stress_data", <<"/", "api", "/", "health", "/", "get_stress_data">>>>,
     <<"get_body_battery", <<"/", "api", "/", "health", "/", "get_body_battery">>>>,
     <<"get_resting_heart_rate", <<"/", "api", "/", "health", "/", "get_resting_heart_rate">>>>,
     <<"get_hrv_data", <<"/", "api", "/", "health", "/", "get_hrv_data">>>>,
     <<"get_training_readiness", <<"/", "api", "/", "health", "/", "get_training_readiness">>>>,
     <<"get_steps_data", <<"/", "api", "/", "health", "/", "get_steps_data">>>>,
     <<"get_respiration_data", <<"/", "api", "/", "health", "/", "get_respiration_data">>>>,
     <<"get_spo2_data", <<"/", "api", "/", "health", "/", "get_spo2_data">>>>,
     <<"get_max_metrics", <<"/", "api", "/", "performance", "/", "get_max_metrics">>>>,
     <<"get_training_status", <<"/", "api", "/", "performance", "/", "get_training_status">>>>,
     <<"get_endurance_score", <<"/", "api", "/", "performance", "/", "get_endurance_score">>>>,
     <<"get_race_predictions", <<"/", "api", "/", "performance", "/", "get_race_predictions">>>> >>

\* the map with its first entry lost
toolEndpointMap_EntryLost == Tail(EndpointEntries)

\* the map with the path of get_activities ending in another tool's name
toolEndpointMap_WrongSegment ==
  [k \in 1..Len(EndpointEntries) |->
     IF EndpointEntries[k][1] = "get_activities"
       THEN <<"get_activities", <<"/", "api", "/", "activities", "/", "get_activity">>>>
       ELSE EndpointEntries[k]]

\* const toolEndpointMap = { ... }
toolEndpointMap == EndpointEntries

ToolNames == {tools[k].name : k \in 1..Len(tools)}
MapKeys == {toolEndpointMap[k][1] : k \in 1..Len(toolEndpointMap)}

(***************************************************************************)
(* Property lookup toolEndpointMap[name].  The map is an ordinary object   *)
(* literal, so a name that is not an own property is looked up on          *)
(* Object.prototype, where "constructor" and "toString" are functions and  *)
(* "__proto__" is an accessor yielding Object.prototype itself.            *)
(***************************************************************************)
JSUndefined == [k |-> "undefined"]
JSString(s) == [k |-> "string", s |-> s]
JSFunction(n) == [k |-> "function", name |-> n]
JSObject == [k |-> "object"]

ObjectPrototype ==
  << <<"constructor", JSFunction("Object")>>,
     <<"toString", JSFunction("toString")>>,
     <<"__proto__", JSObject>> >>

OwnProperty(obj, name) ==
  IF \E k \in 1..Len(obj) : obj[k][1] = name
    THEN (CHOOSE e \in {obj[k] : k \in 1..Len(obj)} : e[1] = name)[2]
    ELSE JSUndefined

\* obj[name] for an object literal obj
GetProperty(obj, name) ==
  IF \E k \in 1..Len(obj) : obj[k][1] = name
    THEN JSString(OwnProperty(obj, name))
    ELSE OwnProperty(ObjectPrototype, name)

\* the truthiness of a looked-up value
Truthy(v) ==
  CASE v.k = "undefined" -> FALSE
    [] v.k = "string" -> v.s # EmptyString
    [] OTHER -> TRUE

\* `${v}`
ToStringJS(v) ==
  CASE v.k = "string" -> v.s
    [] v.k = "function" ->
         <<"function", " ", v.name, "(", ")", " ", "{", " ",
           "[", "native", " ", "code", "]", " ", "}">>
    [] v.k = "object" -> <<"[", "object", " ", "Object", "]">>
    [] OTHER -> <<"undefined">>

(***************************************************************************)
(* new URL(u) for an https URL without credentials: scheme, host, optional *)
(* port, then everything else.  The host ends at the first "/", "?" or     *)
(* "#"; a host with a forbidden code point makes the constructor throw.    *)
(***************************************************************************)
HttpsScheme == "https://"
ForbiddenHostCodePoints ==
  {" ", "#", "/", ":", "<", ">", "?", "@", "[", "\\", "]", "^", "|", "%"}

RECURSIVE IndexOf(_, _, _)
\* the first position >= i of s holding a token of set, or Len(s) + 1
IndexOf(s, set, i) ==
  IF i > Len(s) THEN Len(s) + 1
  ELSE IF s[i] \in set THEN i
  ELSE IndexOf(s, set, i + 1)

RECURSIVE PercentEncodePath(_)
PercentEncodePath(s) ==
  IF s = <<>> THEN <<>>
  ELSE (CASE Head(s) = " " -> <<"%20">>
          [] Head(s) = "{" -> <<"%7B">>
          [] Head(s) = "}" -> <<"%7D">>
          [] OTHER -> <<Head(s)>>) \o PercentEncodePath(Tail(s))

ParseURL(u) ==
  IF u = <<>> \/ Head(u) # HttpsScheme THEN Fail
  ELSE LET rest == Tail(u)
           p == IndexOf(rest, {"/", "?", "#"}, 1)
           authority == SubSeq(rest, 1, p - 1)
           c == IndexOf(authority, {":"}, 1)
           host == SubSeq(authority, 1, c - 1)
           port == SubSeq(authority, c + 1, Len(authority))
           h == IndexOf(rest, {"#"}, p)
           tail == SubSeq(rest, p, h - 1)
       IN IF host = <<>> \/ (\E k \in 1..Len(host) : host[k] \in ForbiddenHostCodePoints)
               \/ (\E k \in 1..Len(port) : port[k] \notin DigitSet)
            THEN Fail
            ELSE [ok |-> TRUE,
                  hostname |-> host,
                  port |-> IF port = <<"4", "4", "3">> THEN <<>> ELSE port,
                  \* urlObj.pathname + urlObj.search
                  path |-> IF tail = <<>> \/ Head(tail) # "/"
                             THEN <<"/">> \o PercentEncodePath(tail)
                             ELSE PercentEncodePath(tail)]

\* a header value https.request accepts: no control character and no
\* character above U+00FF
CHAR_20AC == "U+20AC"
IllegalHeaderChars == {Newline, CHAR_20AC}
LegalHeaderValue(v) == \A k \in 1..Len(v) : v[k] \notin IllegalHeaderChars

(***************************************************************************)
(* Inputs of the model: the environment the process is started in, the     *)
(* invocations the client sends, and the answers of the remote service.    *)
(***************************************************************************)
DefaultBaseUrl == <<HttpsScheme, "fgggkckgk8osog4osgg4484k.mart1m.fr">>

\* a URL with a port and a path prefix
PrefixedBaseUrl ==
  <<HttpsScheme, "garmin.example.com", ":", "8", "4", "4", "3", "/", "v1">>

\* values of <<GARMIN_API_URL, API_KEY>>: both unset; a URL with a port and a
\* path prefix, with a key; a value that is no URL
ApiSettings ==
  { <<Undefined, Undefined>>,
    <<PrefixedBaseUrl, <<"k-123">>>>,
    <<<<"garmin.example.com">>, EmptyString>> }

\* values of <<GARMIN_EMAIL, GARMIN_PASSWORD>>: both set; one unset; one
\* empty; a password with a character no header value may hold
CredentialValues ==
  { <<<<"user@example.com">>, <<"secret">>>>,
    <<Undefined, <<"secret">>>>,
    <<<<"user@example.com">>, EmptyString>>,
    <<<<"user@example.com">>, <<"p", CHAR_20AC, "ss">>>> }

\* request.params.arguments when the client sends no `arguments` member
NoArguments == [t |-> "undefined"]

SomeArguments ==
  JObj(<< <<<<"limit">>, JNum(5)>>, <<<<"note">>, JStr(<<"a", Quote, "b">>)>> >>)

\* invocations a client sends: declared tools (upload_workout without its
\* required workout_json), a name that is no property at all, and names
\* that Object.prototype has
Invocations ==
  { [name |-> "upload_workout", args |-> NoArguments],
    [name |-> "get_activities", args |-> SomeArguments],
    [name |-> "no_such_tool", args |-> NoArguments],
    [name |-> "constructor", args |-> JObj(<<>>)],
    [name |-> "__proto__", args |-> NoArguments] }

\* response bodies, as bytes
BodyOk == <<"{", Quote, "ok", Quote, ":", "true", "}">>
BodySpaced == <<"[", " ", "1", "]">>
BodyText == <<"Not ", Quote, "Found", Quote>>
BodyAccentJson == <<Quote, BYTE_C3, BYTE_A9, Quote>>
BodyAccentText == <<"<", BYTE_C3, BYTE_A9, ">">>

\* answers of the remote service
Responses ==
  { [statusCode |-> 199, body |-> BodySpaced],
    [statusCode |-> 200, body |-> BodyOk],
    [statusCode |-> 204, body |-> <<>>],
    [statusCode |-> 299, body |-> BodyAccentJson],
    [statusCode |-> 300, body |-> BodyOk],
    [statusCode |-> 404, body |-> BodySpaced],
    [statusCode |-> 404, body |-> BodyText],
    [statusCode |-> 500, body |-> BodyAccentText] }

\* messages of connection errors
ErrorMessages == {<<"socket hang up">>}

(***************************************************************************)
(* State                                                                   *)
(***************************************************************************)
VARIABLES
  env,          \* process.env: GARMIN_EMAIL, GARMIN_PASSWORD, GARMIN_API_URL, API_KEY
  API_BASE_URL, \* module constant, set when the module is loaded
  API_KEY,      \* module constant, set when the module is loaded
  calls,        \* one record per call-tool invocation: the handler's position
                \* (pc), its request parameters, the response as the remote
                \* sends it (statusCode, incoming: the bytes still to come,
                \* received: the bytes delivered), the listeners' `data`, the
                \* events seen, and what the handler returned or threw
  requests,     \* the requests handed to https.request, in order
  listed        \* what the latest list-tools query returned

vars == <<env, API_BASE_URL, API_KEY, calls, requests, listed>>

NoResult == [kind |-> "none"]
\* the handler's promise rejected with an Error
Thrown(message) == [kind |-> "thrown", message |-> message]
\* the handler's promise fulfilled with {content: [{type: "text", text}], isError}
Returned(text, isError) == [kind |-> "returned", text |-> text, isError |-> isError]

\* `environment` is history: the credentials in process.env when the handler ran
IdleCall ==
  [pc |-> "idle", name |-> "", args |-> NoArguments,
   environment |-> <<Undefined, Undefined>>,
   responded |-> FALSE, statusCode |-> 0, incoming |-> <<>>, received |-> <<>>,
   data |-> <<>>, ended |-> FALSE, errored |-> FALSE, result |-> NoResult]

Init ==
  /\ \E c \in CredentialValues, a \in ApiSettings :
       env = [GARMIN_EMAIL |-> c[1], GARMIN_PASSWORD |-> c[2],
              GARMIN_API_URL |-> a[1], API_KEY |-> a[2]]
  /\ API_BASE_URL = OrElse(env.GARMIN_API_URL, DefaultBaseUrl)
  /\ API_KEY = OrElse(env.API_KEY, EmptyString)
  /\ calls = [i \in 1..MaxCalls |-> IdleCall]
  /\ requests = <<>>
  /\ listed = NoResult

(***************************************************************************)
(* getGarminCredentials and the synchronous part of apiRequest             *)
(***************************************************************************)
MissingCredentialsMessage ==
  <<"GARMIN_EMAIL and GARMIN_PASSWORD environment variables are required">>

\* getGarminCredentials testing the email only
getGarminCredentials_EmailOnly(e) ==
  IF Falsy(e.GARMIN_EMAIL)
    THEN [ok |-> FALSE, message |-> MissingCredentialsMessage]
    ELSE [ok |-> TRUE, email |-> e.GARMIN_EMAIL, password |-> e.GARMIN_PASSWORD]

\* getGarminCredentials refusing once an earlier invocation has failed
getGarminCredentials_Sticky(e) ==
  IF Falsy(e.GARMIN_EMAIL) \/ Falsy(e.GARMIN_PASSWORD)
     \/ \E i \in DOMAIN calls :
          calls[i].result.kind = "returned" /\ calls[i].result.isError
    THEN [ok |-> FALSE, message |-> MissingCredentialsMessage]
    ELSE [ok |-> TRUE, email |-> e.GARMIN_EMAIL, password |-> e.GARMIN_PASSWORD]

\* reads process.env; [ok |-> FALSE] where it throws
getGarminCredentials(e) ==
  LET email == e.GARMIN_EMAIL
      password == e.GARMIN_PASSWORD
  IN IF Falsy(email) \/ Falsy(password)
       THEN [ok |-> FALSE, message |-> MissingCredentialsMessage]
       ELSE [ok |-> TRUE, email |-> email, password |-> password]

\* the headers with X-API-Key set whether or not a key is configured
RequestHeaders_KeyAlways(credentials, key) ==
  [h \in {"Content-Type", "X-Garmin-Email", "X-Garmin-Password", "X-API-Key"} |->
     CASE h = "Content-Type" -> <<"application/json">>
       [] h = "X-Garmin-Email" -> credentials.email
       [] h = "X-Garmin-Password" -> credentials.password
       [] h = "X-API-Key" -> key]

\* options.headers
RequestHeaders(credentials, key) ==
  [h \in {"Content-Type", "X-Garmin-Email", "X-Garmin-Password"}
         \cup (IF key # EmptyString THEN {"X-API-Key"} ELSE {}) |->
     CASE h = "Content-Type" -> <<"application/json">>
       [] h = "X-Garmin-Email" -> credentials.email
       [] h = "X-Garmin-Password" -> credentials.password
       [] h = "X-API-Key" -> key]

\* if (body): null and undefined are falsy, an object is truthy
BodyTruthy(body) == body.t \notin {"null", "undefined"}

\* urlObj.port || 443
PortOrDefault(port) == IF port = EmptyString THEN <<"4", "4", "3">> ELSE port

\* apiRequest reading the credentials inside the promise, after the URL
apiRequest_CredentialsLate(method, endpoint, body, e, base, key) ==
  LET url == base \o ToStringJS(endpoint)
      urlObj == ParseURL(url)
      credentials == getGarminCredentials(e)
  IN IF ~urlObj.ok
       THEN [kind |-> "reject", message |-> <<"Invalid URL">>]
       ELSE IF ~credentials.ok
         THEN [kind |-> "reject", message |-> credentials.message]
         ELSE LET headers == RequestHeaders(credentials, key)
              IN IF \E h \in DOMAIN headers : ~LegalHeaderValue(headers[h])
                   THEN [kind |-> "reject",
                         message |-> <<"Invalid character in header content">>]
                   ELSE [kind |-> "request",
                         request |->
                           [method |-> method,
                            hostname |-> urlObj.hostname,
                            port |-> PortOrDefault(urlObj.port),
                            path |-> urlObj.path,
                            headers |-> headers,
                            body |-> IF BodyTruthy(body)
                                       THEN StringifyCompact(body)
                                       ELSE EmptyString]]

\* apiRequest reading the base URL and the key from the environment at the call
apiRequest_SettingsAtCall(method, endpoint, body, e, base, key) ==
  LET url == OrElse(e.GARMIN_API_URL, DefaultBaseUrl) \o ToStringJS(endpoint)
      credentials == getGarminCredentials(e)
  IN IF ~credentials.ok
       THEN [kind |-> "throw", message |-> credentials.message]
       ELSE LET urlObj == ParseURL(url)
                headers == RequestHeaders(credentials, OrElse(e.API_KEY, EmptyString))
            IN IF ~urlObj.ok
                 THEN [kind |-> "reject", message |-> <<"Invalid URL">>]
                 ELSE IF \E h \in DOMAIN headers : ~LegalHeaderValue(headers[h])
                   THEN [kind |-> "reject",
                         message |-> <<"Invalid character in header content">>]
                   ELSE [kind |-> "request",
                         request |->
                           [method |-> method,
                            hostname |-> urlObj.hostname,
                            port |-> PortOrDefault(urlObj.port),
                            path |-> urlObj.path,
                            headers |-> headers,
                            body |-> IF BodyTruthy(body)
                                       THEN StringifyCompact(body)
                                       ELSE EmptyString]]

\* apiRequest up to req.end(): the request it hands to https.request, or the
\* error it throws (before the promise) or rejects with (inside the executor)
apiRequest(method, endpoint, body, e, base, key) ==
  LET url == base \o ToStringJS(endpoint)
      credentials == getGarminCredentials(e)
  IN IF ~credentials.ok
       THEN [kind |-> "throw", message |-> credentials.message]
       ELSE LET urlObj == ParseURL(url)
                headers == RequestHeaders(credentials, key)
            IN IF ~urlObj.ok
                 THEN [kind |-> "reject", message |-> <<"Invalid URL">>]
                 ELSE IF \E h \in DOMAIN headers : ~LegalHeaderValue(headers[h])
                   THEN [kind |-> "reject",
                         message |-> <<"Invalid character in header content">>]
                   ELSE [kind |-> "request",
                         request |->
                           [method |-> method,
                            hostname |-> urlObj.hostname,
                            port |-> PortOrDefault(urlObj.port),
                            path |-> urlObj.path,
                            headers |-> headers,
                            body |-> IF BodyTruthy(body)
                                       THEN StringifyCompact(body)
                                       ELSE EmptyString]]

\* the status test with its lower bound off by one
IsSuccessStatus_Above200(statusCode) == statusCode > 200 /\ statusCode < 300

\* the status test with its upper bound off by one
IsSuccessStatus_Through300(statusCode) == statusCode >= 200 /\ statusCode <= 300

\* 200 <= res.statusCode < 300
IsSuccessStatus(statusCode) == statusCode >= 200 /\ statusCode < 300

\* the "end" listener with the status code left out of its message
OnEnd_NoStatus(statusCode, data) ==
  LET parsed == JSONParse(data) IN
    IF parsed.ok
      THEN IF IsSuccessStatus(statusCode)
             THEN [kind |-> "resolve", value |-> parsed.val]
             ELSE [kind |-> "reject",
                   message |-> <<"API Error: ">> \o StringifyCompact(parsed.val)]
      ELSE [kind |-> "reject",
            message |-> <<"Failed to parse response: ">> \o data]

\* the res "end" listener: how it settles the promise
OnEnd(statusCode, data) ==
  LET parsed == JSONParse(data) IN
    IF parsed.ok
      THEN IF IsSuccessStatus(statusCode)
             THEN [kind |-> "resolve", value |-> parsed.val]
             ELSE [kind |-> "reject",
                   message |-> <<"API Error (">> \o NumberToString(statusCode)
                               \o <<"): ">> \o StringifyCompact(parsed.val)]
      ELSE [kind |-> "reject",
            message |-> <<"Failed to parse response: ">> \o data]

(***************************************************************************)
(* The call-tool handler                                                   *)
(***************************************************************************)
UnknownToolMessage(name) == <<"Unknown tool: ", name>>

\* {success: false, error: message}
ErrorPayload(message) ==
  JObj(<< <<<<"success">>, JBool(FALSE)>>, <<<<"error">>, JStr(message)>> >>)

\* the handler's return value after `await apiRequest(...)` resolved
SuccessResult(value) == Returned(StringifyPretty(value), FALSE)

\* the catch block rethrowing instead of returning
ErrorResult_Rethrown(message) == Thrown(message)

\* the handler's return value from its catch block
ErrorResult(message) == Returned(StringifyPretty(ErrorPayload(message)), TRUE)

\* toolEndpointMap[name]
LookupEndpoint(name) == GetProperty(toolEndpointMap, name)

\* the arguments passed on without the `|| {}`
HandlerBody_NoDefault(args) == args

\* args || {}
HandlerBody(args) == IF args = NoArguments THEN JObj(<<>>) ELSE args

\* the request sent a second time
SendRequest_Twice(log, request) == Append(Append(log, request), request)

\* https.request(options, callback): one more request on the network
SendRequest(log, request) == Append(log, request)

RequestsOf(i) == {k \in 1..Len(requests) : requests[k].call = i}

\* the handler from its start to its first await, or to its end when it
\* throws or apiRequest fails at once
CallTool(i, name, args) ==
  /\ calls[i].pc = "idle"
  /\ \A j \in DOMAIN calls : j < i => calls[j].pc # "idle"
  /\ LET started == [calls[i] EXCEPT !.name = name, !.args = args,
                                     !.environment =
                                       <<env.GARMIN_EMAIL, env.GARMIN_PASSWORD>>]
         endpoint == LookupEndpoint(name)
     IN IF ~Truthy(endpoint)
          THEN /\ calls' = [calls EXCEPT ![i] =
                    [started EXCEPT !.pc = "done",
                                    !.result = Thrown(UnknownToolMessage(name))]]
               /\ UNCHANGED requests
          ELSE LET r == apiRequest("POST", endpoint, HandlerBody(args),
                                   env, API_BASE_URL, API_KEY)
               IN IF r.kind = "request"
                    THEN /\ calls' = [calls EXCEPT ![i] =
                              [started EXCEPT !.pc = "waiting"]]
                         /\ requests' = SendRequest(requests,
                              [call |-> i, method |-> r.request.method,
                               hostname |-> r.request.hostname,
                               port |-> r.request.port,
                               path |-> r.request.path,
                               headers |-> r.request.headers,
                               body |-> r.request.body])
                    ELSE /\ calls' = [calls EXCEPT ![i] =
                              [started EXCEPT !.pc = "done",
                                              !.result = ErrorResult(r.message)]]
                         /\ UNCHANGED requests
  /\ UNCHANGED <<env, API_BASE_URL, API_KEY, listed>>

\* the response callback: the head of the response has arrived
Response(i, statusCode, body) ==
  /\ RequestsOf(i) # {}
  /\ ~calls[i].responded
  /\ ~calls[i].errored
  /\ calls' = [calls EXCEPT ![i] =
       [@ EXCEPT !.responded = TRUE, !.statusCode = statusCode,
                 !.incoming = body, !.data = EmptyString]]
  /\ UNCHANGED <<env, API_BASE_URL, API_KEY, requests, listed>>

\* the "data" listener appending to one `data` that all responses share
Data_SharedAccumulator(i, n) ==
  /\ calls[i].responded
  /\ ~calls[i].ended
  /\ n >= 1 /\ n <= Len(calls[i].incoming)
  /\ calls' = [j \in DOMAIN calls |->
       IF j = i
         THEN [calls[j] EXCEPT
                 !.data = @ \o BufferToString(SubSeq(calls[i].incoming, 1, n)),
                 !.incoming = SubSeq(@, n + 1, Len(@)),
                 !.received = @ \o SubSeq(calls[i].incoming, 1, n)]
         ELSE IF calls[j].responded /\ ~calls[j].ended
           THEN [calls[j] EXCEPT
                   !.data = @ \o BufferToString(SubSeq(calls[i].incoming, 1, n))]
           ELSE calls[j]]
  /\ UNCHANGED <<env, API_BASE_URL, API_KEY, requests, listed>>

\* the res "data" listener: the next n bytes arrive as one chunk (a body
\* arrives in any number of chunks of any sizes)
Data(i, n) ==
  /\ calls[i].responded
  /\ ~calls[i].ended
  /\ n >= 1 /\ n <= Len(calls[i].incoming)
  /\ calls' = [calls EXCEPT ![i] =
       [@ EXCEPT !.data = @ \o BufferToString(SubSeq(calls[i].incoming, 1, n)),
                 !.incoming = SubSeq(@, n + 1, Len(@)),
                 !.received = @ \o SubSeq(calls[i].incoming, 1, n)]]
  /\ UNCHANGED <<env, API_BASE_URL, API_KEY, requests, listed>>

\* the "end" listener deciding the outcome again after it was decided
End_SettlesAgain(i) ==
  /\ calls[i].responded
  /\ ~calls[i].ended
  /\ calls[i].incoming = <<>>
  /\ LET s == OnEnd(calls[i].statusCode, calls[i].data) IN
       calls' = [calls EXCEPT ![i] =
         [@ EXCEPT !.ended = TRUE, !.pc = "done",
                   !.result = IF s.kind = "resolve"
                                THEN SuccessResult(s.value)
                                ELSE ErrorResult(s.message)]]
  /\ UNCHANGED <<env, API_BASE_URL, API_KEY, requests, listed>>

\* the res "end" listener, and the handler's continuation when this settles
\* the promise
End(i) ==
  /\ calls[i].responded
  /\ ~calls[i].ended
  /\ calls[i].incoming = <<>>
  /\ LET s == OnEnd(calls[i].statusCode, calls[i].data) IN
       calls' = [calls EXCEPT ![i] =
         IF calls[i].pc = "waiting"
           THEN [@ EXCEPT !.ended = TRUE, !.pc = "done",
                          !.result = IF s.kind = "resolve"
                                       THEN SuccessResult(s.value)
                                       ELSE ErrorResult(s.message)]
           ELSE [@ EXCEPT !.ended = TRUE]]
  /\ UNCHANGED <<env, API_BASE_URL, API_KEY, requests, listed>>

\* the req "error" listener without its reject(error)
RequestError_NoReject(i, message) ==
  /\ RequestsOf(i) # {}
  /\ ~calls[i].errored
  /\ calls' = [calls EXCEPT ![i] = [@ EXCEPT !.errored = TRUE]]
  /\ UNCHANGED <<env, API_BASE_URL, API_KEY, requests, listed>>

\* the req "error" listener, and the handler's continuation when this settles
\* the promise
RequestError(i, message) ==
  /\ RequestsOf(i) # {}
  /\ ~calls[i].errored
  /\ calls' = [calls EXCEPT ![i] =
       IF calls[i].pc = "waiting"
         THEN [@ EXCEPT !.errored = TRUE, !.pc = "done",
                        !.result = ErrorResult(message)]
         ELSE [@ EXCEPT !.errored = TRUE]]
  /\ UNCHANGED <<env, API_BASE_URL, API_KEY, requests, listed>>

\* the list-tools handler's return value with the descriptions left out
ListToolsResult_NoDescription ==
  [tools |-> [k \in 1..Len(tools) |->
                [name |-> tools[k].name, inputSchema |-> tools[k].inputSchema]]]

\* { tools: tools.map((tool) => ({ name, description, inputSchema })) }
ListToolsResult ==
  [tools |-> [k \in 1..Len(tools) |->
                [name |-> tools[k].name,
                 description |-> tools[k].description,
                 inputSchema |-> tools[k].inputSchema]]]

\* the list-tools handler: it reads the catalog and nothing else
ListTools ==
  /\ listed' = [kind |-> "returned", value |-> ListToolsResult]
  /\ UNCHANGED <<env, API_BASE_URL, API_KEY, calls, requests>>

\* the process environment is assigned to: process.env is a mutable object of
\* the process, and every handler reads it in one synchronous step, so a
\* series of assignments between two handlers is one step
SetEnv(e) ==
  /\ e # env
  /\ env' = e
  /\ UNCHANGED <<API_BASE_URL, API_KEY, calls, requests, listed>>

Next ==
  \/ \E i \in DOMAIN calls, c \in Invocations : CallTool(i, c.name, c.args)
  \/ \E i \in DOMAIN calls, r \in Responses : Response(i, r.statusCode, r.body)
  \/ \E i \in DOMAIN calls : \E n \in 1..Len(calls[i].incoming) : Data(i, n)
  \/ \E i \in DOMAIN calls : End(i)
  \/ \E i \in DOMAIN calls, message \in ErrorMessages : RequestError(i, message)

Spec == Init /\ [][Next]_vars

(***************************************************************************)
(* A session: several invocations, which may overlap, and list-tools       *)
(* queries, with few invocations and answers to choose from.               *)
(***************************************************************************)
\* values of process.env: credentials with no URL and no key; other
\* credentials with a URL and a key; no email
SessionEnvironments ==
  { [GARMIN_EMAIL |-> <<"user@example.com">>, GARMIN_PASSWORD |-> <<"secret">>,
     GARMIN_API_URL |-> Undefined, API_KEY |-> Undefined],
    [GARMIN_EMAIL |-> <<"other@example.com">>, GARMIN_PASSWORD |-> <<"hunter2">>,
     GARMIN_API_URL |-> PrefixedBaseUrl, API_KEY |-> <<"k-123">>],
    [GARMIN_EMAIL |-> Undefined, GARMIN_PASSWORD |-> <<"secret">>,
     GARMIN_API_URL |-> Undefined, API_KEY |-> Undefined] }

SessionInvocations ==
  { [name |-> "get_activities", args |-> SomeArguments],
    [name |-> "no_such_tool", args |-> NoArguments] }

\* the number 12, and an empty object with an error status
SessionResponses ==
  { [statusCode |-> 200, body |-> <<"1", "2">>],
    [statusCode |-> 500, body |-> <<"{", "}">>] }

InitSession ==
  /\ env \in SessionEnvironments
  /\ API_BASE_URL = OrElse(env.GARMIN_API_URL, DefaultBaseUrl)
  /\ API_KEY = OrElse(env.API_KEY, EmptyString)
  /\ calls = [i \in 1..MaxSessionCalls |-> IdleCall]
  /\ requests = <<>>
  /\ listed = NoResult

NextSession ==
  \/ \E i \in DOMAIN calls, c \in SessionInvocations : CallTool(i, c.name, c.args)
  \/ \E i \in DOMAIN calls, r \in SessionResponses :
       Response(i, r.statusCode, r.body)
  \/ \E i \in DOMAIN calls : \E n \in 1..Len(calls[i].incoming) : Data(i, n)
  \/ \E i \in DOMAIN calls : End(i)
  \/ \E i \in DOMAIN calls, message \in ErrorMessages : RequestError(i, message)
  \/ ListTools

SpecSession == InitSession /\ [][NextSession]_vars

\* the next step of the answer to the request of invocation i: the head of
\* the response, a chunk of its body, or its end
Answer(i) ==
  \/ \E r \in SessionResponses : Response(i, r.statusCode, r.body)
  \/ \E n \in 1..Len(calls[i].incoming) : Data(i, n)
  \/ End(i)

\* the session when every request gets its answer: once a request is sent its
\* response arrives, every byte of the body is delivered and the response
\* ends, unless a connection error comes before
SpecLive ==
  /\ SpecSession
  /\ \A i \in 1..MaxSessionCalls : WF_vars(Answer(i))

(***************************************************************************)
(* A session in which the environment is assigned to between invocations.  *)
(***************************************************************************)
EnvironmentInvocations == {[name |-> "get_activities", args |-> SomeArguments]}

EnvironmentResponses == {[statusCode |-> 200, body |-> <<"1", "2">>]}

NextEnvironment ==
  \/ \E i \in DOMAIN calls, c \in EnvironmentInvocations :
       CallTool(i, c.name, c.args)
  \/ \E i \in DOMAIN calls, r \in EnvironmentResponses :
       Response(i, r.statusCode, r.body)
  \/ \E i \in DOMAIN calls : \E n \in 1..Len(calls[i].incoming) : Data(i, n)
  \/ \E i \in DOMAIN calls : End(i)
  \/ \E i \in DOMAIN calls, message \in ErrorMessages : RequestError(i, message)
  \/ \E e \in SessionEnvironments : SetEnv(e)

SpecEnvironment == InitSession /\ [][NextEnvironment]_vars

(***************************************************************************)
(* Vocabulary of the properties                                            *)
(***************************************************************************)
\* i's tool name is a key of the endpoint map
KnownTool(i) == calls[i].name \in MapKeys

\* both credentials are set and non-empty in environment e
CredentialsPresent(e) ==
  /\ e.GARMIN_EMAIL # Undefined /\ e.GARMIN_EMAIL # EmptyString
  /\ e.GARMIN_PASSWORD # Undefined /\ e.GARMIN_PASSWORD # EmptyString

\* the invocation failed: it threw, or it returned an error-flagged result
Failed(result) ==
  \/ result.kind = "thrown"
  \/ result.kind = "returned" /\ result.isError

TwoXX(statusCode) == statusCode \in 200..299

\* the `error` member of the payload a result's text holds
ErrorMessageOf(result) ==
  LET p == JSONParse(result.text) IN
    IF p.ok /\ p.val.t = "obj" /\ HasKey(p.val.v, <<"error">>)
      THEN (CHOOSE e \in {p.val.v[k] : k \in 1..Len(p.val.v)} : e[1] = <<"error">>)[2].v
      ELSE <<"<no error member>">>

\* the text of JSON.stringify({success: false, error: message}, null, 2)
ErrorText(message) ==
  <<"{", Newline, " ", " ", Quote, "success", Quote, ":", " ", "false", ",",
    Newline, " ", " ", Quote, "error", Quote, ":", " ">>
  \o QuoteString(message) \o <<Newline, "}">>

\* the response of i is complete and no connection error was raised
Answered(i) == calls[i].ended /\ ~calls[i].errored

\* the body of i's response as text, decoded as a whole
ResponseText(i) == BufferToString(calls[i].received)

\* the path the map declares for a tool
EndpointText(name) == OwnProperty(EndpointEntries, name)

\* the URL a request goes to
TargetOf(r) ==
  <<HttpsScheme>> \o r.hostname
  \o (IF r.port = <<"4", "4", "3">> THEN <<>> ELSE <<":">> \o r.port)
  \o r.path

\* obj[key] of a JSON object: the member's value, undefined when it has none
ValueOf(obj, key) ==
  IF obj.t = "obj" /\ \E k \in 1..Len(obj.v) : obj.v[k][1] = <<key>>
    THEN obj.v[CHOOSE k \in 1..Len(obj.v) : obj.v[k][1] = <<key>>][2]
    ELSE [t |-> "undefined"]

\* the parameters a catalog entry declares required
Required(tool) ==
  LET r == ValueOf(tool.inputSchema, "required")
  IN IF r.t = "arr" THEN {r.v[k] : k \in 1..Len(r.v)} ELSE {}

(***************************************************************************)
(* C1: a call-tool invocation whose name is not a key of the endpoint map  *)
(* (any string, "constructor" and "__proto__" included) ends with the      *)
(* "Unknown tool" condition, and no outbound request is created for it.    *)
(* The code does not do this: see C1_UnknownToolRejected's trace.          *)
(***************************************************************************)
C1_UnknownToolRejected ==
  \A i \in DOMAIN calls :
    (calls[i].pc # "idle" /\ ~KnownTool(i)) =>
      /\ calls[i].pc = "done"
      /\ calls[i].result = Thrown(<<"Unknown tool: ", calls[i].name>>)
      /\ RequestsOf(i) = {}

(***************************************************************************)
(* C2: when GARMIN_EMAIL or GARMIN_PASSWORD is unset or empty at the time  *)
(* of a call, the invocation fails at once, whatever the tool name and     *)
(* arguments, and no outbound request is created for it then or later.     *)
(***************************************************************************)
C2_MissingCredentialsFail ==
  [][ /\ \A i \in DOMAIN calls :
           (calls[i].pc = "idle" /\ calls'[i].pc # "idle" /\ ~CredentialsPresent(env)) =>
             /\ calls'[i].pc = "done"
             /\ Failed(calls'[i].result)
             /\ requests' = requests
      /\ \A i \in DOMAIN calls :
           calls[i].pc = "done" =>
             {k \in 1..Len(requests') : requests'[k].call = i} = RequestsOf(i)
    ]_vars

C2_Witness ==
  \E i \in DOMAIN calls :
    /\ ~CredentialsPresent(env)
    /\ KnownTool(i)
    /\ calls[i].pc = "done"
    /\ calls[i].result.kind = "returned"
    /\ calls[i].result.isError
    /\ ErrorMessageOf(calls[i].result) = MissingCredentialsMessage
    /\ requests = <<>>

(***************************************************************************)
(* C3, as stated: for a known tool with credentials present, whenever the  *)
(* remote answers with a 2xx status, the invocation returns the parsed     *)
(* JSON body pretty-printed with 2-space indentation, not flagged as an    *)
(* error.  Violated by a 2xx answer whose body is not JSON.                *)
(***************************************************************************)
C3_Original ==
  \A i \in DOMAIN calls :
    (KnownTool(i) /\ Answered(i) /\ TwoXX(calls[i].statusCode)) =>
      LET p == JSONParse(ResponseText(i)) IN
        /\ p.ok
        /\ calls[i].result = Returned(StringifyPretty(p.val), FALSE)

(***************************************************************************)
(* C3, amended: for a known tool with credentials present, whenever the    *)
(* remote answers with a 2xx status and the text accumulated from the      *)
(* chunks parses as JSON, the invocation returns that parsed value         *)
(* pretty-printed with 2-space indentation, not flagged as an error; the   *)
(* body {"ok":true} with status 200 yields "{\n  \"ok\": true\n}".         *)
(***************************************************************************)
C3_SuccessContent ==
  \A i \in DOMAIN calls :
    (KnownTool(i) /\ Answered(i) /\ TwoXX(calls[i].statusCode)
       /\ JSONParse(calls[i].data).ok) =>
      /\ calls[i].result =
           Returned(StringifyPretty(JSONParse(calls[i].data).val), FALSE)
      /\ calls[i].data = BodyOk =>
           calls[i].result.text =
             <<"{", Newline, " ", " ", Quote, "ok", Quote, ":", " ", "true", Newline, "}">>

C3_Witness ==
  \E i \in DOMAIN calls :
    /\ KnownTool(i) /\ Answered(i)
    /\ calls[i].statusCode = 200
    /\ calls[i].data = BodyOk
    /\ calls[i].result.kind = "returned"
    /\ ~calls[i].result.isError

(***************************************************************************)
(* C4, as stated: for a known tool with credentials present, whenever the  *)
(* remote answers with a non-2xx status, whatever the body, the result is  *)
(* error-flagged and its message contains the status code and the          *)
(* response body.  Violated by a 404 whose body is not JSON (no status     *)
(* code in the message) and by a JSON body that is not in compact form.    *)
(***************************************************************************)
C4_Original ==
  \A i \in DOMAIN calls :
    (KnownTool(i) /\ Answered(i) /\ ~TwoXX(calls[i].statusCode)) =>
      /\ calls[i].result.kind = "returned"
      /\ calls[i].result.isError
      /\ Contains(ErrorMessageOf(calls[i].result), NumberToString(calls[i].statusCode))
      /\ Contains(ErrorMessageOf(calls[i].result), ResponseText(i))

(***************************************************************************)
(* C4, amended: for a known tool with credentials present, whenever the    *)
(* remote answers with a non-2xx status and the text accumulated from the  *)
(* chunks parses as JSON, the result is error-flagged and its message is   *)
(* "API Error (<status>): " followed by the compact JSON serialisation of  *)
(* the parsed body; a 404 with body "[ 1]" yields "API Error (404): [1]".  *)
(***************************************************************************)
C4_ApiErrorMessage ==
  \A i \in DOMAIN calls :
    (KnownTool(i) /\ Answered(i) /\ ~TwoXX(calls[i].statusCode)
       /\ JSONParse(calls[i].data).ok) =>
      /\ calls[i].result.kind = "returned"
      /\ calls[i].result.isError
      /\ ErrorMessageOf(calls[i].result) =
           <<"API Error (">> \o NumberToString(calls[i].statusCode) \o <<"): ">>
           \o StringifyCompact(JSONParse(calls[i].data).val)
      /\ (calls[i].statusCode = 404 /\ calls[i].data = BodySpaced) =>
           ErrorMessageOf(calls[i].result) =
             <<"API Error (", "4", "0", "4", "): ", "[", "1", "]">>

C4_Witness ==
  \E i \in DOMAIN calls :
    /\ KnownTool(i) /\ Answered(i)
    /\ calls[i].statusCode = 404
    /\ calls[i].data = BodySpaced
    /\ calls[i].result.kind = "returned"
    /\ calls[i].result.isError

(***************************************************************************)
(* C5: for a known tool with credentials present, whenever the complete    *)
(* response body is not valid JSON (any status code, the empty body        *)
(* included), the result is error-flagged and its message contains the raw *)
(* body text exactly as received.  The code does not do this when a        *)
(* multi-byte character is split over two chunks.                          *)
(***************************************************************************)
C5_RawBodyInMessage ==
  \A i \in DOMAIN calls :
    (KnownTool(i) /\ Answered(i) /\ ~JSONParse(ResponseText(i)).ok) =>
      /\ calls[i].result.kind = "returned"
      /\ calls[i].result.isError
      /\ Contains(ErrorMessageOf(calls[i].result), ResponseText(i))

(***************************************************************************)
(* C6: for a known tool, a connection error, a non-2xx status and an       *)
(* unparsable body each come back from the handler as a returned result    *)
(* with isError set, whose text is the pretty-printed payload              *)
(* {success: false, error: <message>}; the handler never throws.           *)
(***************************************************************************)
C6_FailuresAreReturned ==
  \A i \in DOMAIN calls :
    (KnownTool(i) /\ calls[i].pc = "done") =>
      /\ calls[i].result.kind = "returned"
      /\ ( \/ calls[i].errored /\ ~calls[i].ended
           \/ Answered(i) /\ ~TwoXX(calls[i].statusCode)
           \/ Answered(i) /\ ~JSONParse(calls[i].data).ok ) =>
           /\ calls[i].result.isError
           /\ calls[i].result.text = ErrorText(ErrorMessageOf(calls[i].result))
           /\ ErrorMessageOf(calls[i].result) # <<"<no error member>">>
      /\ (calls[i].errored /\ ~calls[i].responded) =>
           ErrorMessageOf(calls[i].result) \in ErrorMessages

C6_Witness ==
  \E i \in DOMAIN calls :
    /\ KnownTool(i)
    /\ calls[i].pc = "done"
    /\ calls[i].errored /\ ~calls[i].responded
    /\ calls[i].result.kind = "returned"
    /\ calls[i].result.isError

(***************************************************************************)
(* C7, as stated: every invocation of a known tool with credentials        *)
(* present performs exactly one outbound request, never zero and never a   *)
(* second one.  Violated when the request cannot be built: it is zero.     *)
(***************************************************************************)
C7_Original ==
  \A i \in DOMAIN calls :
    (calls[i].pc # "idle" /\ KnownTool(i) /\ CredentialsPresent(env)) =>
      Cardinality(RequestsOf(i)) = 1

\* the request of a known tool can be built from environment e: the URL
\* parses and every header value is legal
Buildable(name, e) ==
  /\ ParseURL(API_BASE_URL \o EndpointText(name)).ok
  /\ LegalHeaderValue(e.GARMIN_EMAIL)
  /\ LegalHeaderValue(e.GARMIN_PASSWORD)
  /\ LegalHeaderValue(API_KEY)

(***************************************************************************)
(* C7, amended: every invocation of a known tool with credentials present  *)
(* performs at most one outbound request over its whole lifetime: exactly  *)
(* one, created when the invocation starts, if the base URL with the       *)
(* endpoint parses as a URL and every header value is legal, and none      *)
(* otherwise; no later event (connection error, non-2xx status, parse      *)
(* failure) creates another one.                                           *)
(***************************************************************************)
C7_OneRequestNoRetry ==
  [][ /\ \A i \in DOMAIN calls :
           (calls[i].pc = "idle" /\ calls'[i].pc # "idle"
              /\ calls'[i].name \in MapKeys /\ CredentialsPresent(env)) =>
             Cardinality({k \in 1..Len(requests') : requests'[k].call = i})
               = IF Buildable(calls'[i].name, env) THEN 1 ELSE 0
      /\ \A i \in DOMAIN calls :
           calls[i].pc # "idle" =>
             {k \in 1..Len(requests') : requests'[k].call = i} = RequestsOf(i)
    ]_vars

C7_Witness ==
  \E i \in DOMAIN calls :
    /\ KnownTool(i)
    /\ calls[i].pc = "done"
    /\ calls[i].errored
    /\ calls[i].result.isError
    /\ Cardinality(RequestsOf(i)) = 1

(***************************************************************************)
(* C8: the tool names of the catalog and the keys of the endpoint map are  *)
(* the same 25 names: every declared tool has exactly one endpoint entry,  *)
(* the map has no other key, and no name occurs twice in the catalog; so   *)
(* the name of an invocation is in the catalog exactly when it is a key of *)
(* the map.                                                                *)
(***************************************************************************)
C8_CatalogMatchesMap ==
  /\ Len(tools) = 25
  /\ Len(toolEndpointMap) = 25
  /\ Cardinality(ToolNames) = Len(tools)
  /\ Cardinality(MapKeys) = Len(toolEndpointMap)
  /\ ToolNames = MapKeys
  /\ \A i \in DOMAIN calls :
       calls[i].pc # "idle" =>
         ( (\E a \in 1..Len(tools) : tools[a].name = calls[i].name)
           <=> (\E b \in 1..Len(toolEndpointMap) : toolEndpointMap[b][1] = calls[i].name) )

\* a declared tool was called and its endpoint was found in the map
C8_Witness ==
  \E k \in 1..Len(requests) :
    /\ calls[requests[k].call].name \in {tools[a].name : a \in 1..Len(tools)}
    /\ requests[k].path = EndpointText(calls[requests[k].call].name)

(***************************************************************************)
(* C9: the outbound request of an invocation of a known tool T is a POST   *)
(* to the base URL followed by the map's endpoint for T, with              *)
(* Content-Type: application/json, X-Garmin-Email and X-Garmin-Password    *)
(* equal to the credentials in the environment at the call, and an         *)
(* X-API-Key header exactly when an API key is configured, holding it.     *)
(***************************************************************************)
C9_RequestShape ==
  [][ /\ Len(requests') >= Len(requests)
      /\ SubSeq(requests', 1, Len(requests)) = requests
      /\ \A k \in (Len(requests) + 1)..Len(requests') :
           LET r == requests'[k]
               name == calls'[r.call].name
           IN name \in MapKeys =>
                /\ r.method = "POST"
                /\ TargetOf(r) = API_BASE_URL \o EndpointText(name)
                /\ API_BASE_URL = IF env.GARMIN_API_URL \in {Undefined, EmptyString}
                                    THEN DefaultBaseUrl ELSE env.GARMIN_API_URL
                /\ r.headers["Content-Type"] = <<"application/json">>
                /\ r.headers["X-Garmin-Email"] = env.GARMIN_EMAIL
                /\ r.headers["X-Garmin-Password"] = env.GARMIN_PASSWORD
                /\ "X-API-Key" \in DOMAIN r.headers
                     <=> env.API_KEY \notin {Undefined, EmptyString}
                /\ "X-API-Key" \in DOMAIN r.headers =>
                     r.headers["X-API-Key"] = env.API_KEY
                /\ DOMAIN r.headers \subseteq
                     {"Content-Type", "X-Garmin-Email", "X-Garmin-Password", "X-API-Key"}
    ]_vars

C9_Witness ==
  \E k \in 1..Len(requests) :
    /\ calls[requests[k].call].name = "get_activities"
    /\ requests[k].method = "POST"
    /\ requests[k].hostname = <<"garmin.example.com">>
    /\ requests[k].path = <<"/", "v1", "/", "api", "/", "activities", "/", "get_activities">>
    /\ requests[k].headers["X-API-Key"] = <<"k-123">>

(***************************************************************************)
(* C10: the body of the outbound request is the JSON serialisation of the  *)
(* caller's argument object, unchanged: parsing it gives the arguments     *)
(* back, nothing is added for a parameter the inputSchema requires or      *)
(* defaults, and when the caller supplies no arguments the body is {}.     *)
(***************************************************************************)
C10_BodyIsArguments ==
  \A k \in 1..Len(requests) :
    LET r == requests[k]
        c == calls[r.call]
    IN KnownTool(r.call) =>
         /\ JSONParse(r.body) =
              [ok |-> TRUE, val |-> IF c.args = NoArguments THEN JObj(<<>>) ELSE c.args]
         /\ c.args = NoArguments => r.body = <<"{", "}">>
         /\ c.args = SomeArguments =>
              r.body = <<"{", Quote, "limit", Quote, ":", "5", ",",
                         Quote, "note", Quote, ":",
                         Quote, "a", Backslash, Quote, "b", Quote, "}">>

\* upload_workout was forwarded without its required workout_json
C10_Witness ==
  \E k \in 1..Len(requests) :
    /\ calls[requests[k].call].name = "upload_workout"
    /\ JStr(<<"workout_json">>) \in Required(tools[1])
    /\ tools[1].name = "upload_workout"
    /\ calls[requests[k].call].args = NoArguments
    /\ requests[k].body = <<"{", "}">>

(***************************************************************************)
(* C11: a list-tools query always succeeds and returns the same catalog,   *)
(* the 25 declared {name, description, inputSchema} entries in declaration *)
(* order, in every reachable state: whatever the credentials are and       *)
(* whatever invocations and queries came before and however they ended.    *)
(* The catalog and the endpoint map are constants of the model: no         *)
(* statement of the source assigns to them or to a member of them.         *)
(***************************************************************************)
C11_CatalogIsStatic ==
  /\ ENABLED ListTools
  /\ listed # NoResult =>
       /\ listed.kind = "returned"
       /\ DOMAIN listed.value = {"tools"}
       /\ Len(listed.value.tools) = 25
       /\ \A k \in 1..Len(listed.value.tools) :
            /\ DOMAIN listed.value.tools[k] = {"name", "description", "inputSchema"}
            /\ listed.value.tools[k] = tools[k]
            /\ listed.value.tools[k].name = toolEndpointMap[k][1]

\* the catalog was returned with the credentials missing, after one
\* invocation failed
C11_Witness ==
  /\ listed.kind = "returned"
  /\ ~CredentialsPresent(env)
  /\ \E i \in DOMAIN calls : calls[i].pc = "done" /\ Failed(calls[i].result)

(***************************************************************************)
(* C12: the endpoint of every tool T is /api/<category>/<T>, its last      *)
(* segment the tool's name, and the categories hold 4 workout, 6 activity, *)
(* 11 health and 4 performance tools; so the endpoint looked up for an     *)
(* invocation of a declared tool ends in the invoked name.                 *)
(***************************************************************************)
C12_EndpointShape ==
  LET category(k) == toolEndpointMap[k][2][4]
      count(c) == Cardinality({k \in 1..Len(toolEndpointMap) : category(k) = c})
  IN /\ \A k \in 1..Len(toolEndpointMap) :
          LET path == toolEndpointMap[k][2]
          IN /\ Len(path) = 6
             /\ <<path[1], path[2], path[3], path[5]>> = <<"/", "api", "/", "/">>
             /\ path[4] \in {"workout", "activities", "health", "performance"}
             /\ path[6] = toolEndpointMap[k][1]
     /\ count("workout") = 4
     /\ count("activities") = 6
     /\ count("health") = 11
     /\ count("performance") = 4
     /\ \A i \in DOMAIN calls :
          calls[i].pc # "idle" /\ KnownTool(i) =>
            LET endpoint == LookupEndpoint(calls[i].name)
            IN /\ endpoint.k = "string"
               /\ endpoint.s[Len(endpoint.s)] = calls[i].name
               /\ \A k \in RequestsOf(i) :
                    requests[k].path[Len(requests[k].path)] = calls[i].name

\* a request for get_activities went to a path ending in /api/activities/get_activities
C12_Witness ==
  \E k \in 1..Len(requests) :
    /\ calls[requests[k].call].name = "get_activities"
    /\ requests[k].path = <<"/", "api", "/", "activities", "/", "get_activities">>

(***************************************************************************)
(* C13 as claimed: at any time at most one outbound request is in flight,  *)
(* a second invocation creating its request only after the request of an   *)
(* earlier one is settled.  The handler is an async function that holds    *)
(* no lock and no queue, so it does not hold: see C13_Original's trace.    *)
(***************************************************************************)
\* the request of invocation i awaits its response, or the rest of it
InFlight(i) ==
  RequestsOf(i) # {} /\ ~calls[i].ended /\ ~calls[i].errored

C13_Original ==
  Cardinality({i \in DOMAIN calls : InFlight(i)}) <= 1

(***************************************************************************)
(* C13, amended: every invocation has at most one outbound request, and a  *)
(* request is in flight exactly while its own invocation is pending; the   *)
(* requests of different invocations may be in flight together.            *)
(***************************************************************************)
C13_OneRequestPerInvocation ==
  /\ \A i \in DOMAIN calls :
       /\ Cardinality(RequestsOf(i)) <= 1
       /\ InFlight(i) <=> calls[i].pc = "waiting"
  /\ Cardinality({i \in DOMAIN calls : InFlight(i)}) = 
       Cardinality({i \in DOMAIN calls : calls[i].pc = "waiting"})
  /\ Len(requests) <= Cardinality({i \in DOMAIN calls : calls[i].pc # "idle"})

\* two invocations are pending, each with its request in flight
C13_Witness ==
  /\ Cardinality({i \in DOMAIN calls : InFlight(i)}) = 2
  /\ Len(requests) = 2
  /\ requests[1].call # requests[2].call

(***************************************************************************)
(* C14: no invocation leaves state behind that a later one can observe.    *)
(* Two invocations of one session with the same tool name, arguments and   *)
(* credentials, whose requests got the same answer so far (status, bytes,  *)
(* end and error events), sent the same request and are at the same point  *)
(* with the same result, whatever happened in between; and an invocation   *)
(* of a declared tool with credentials present sends its request, and      *)
(* succeeds when the answer is a 2xx status with a body that parses,       *)
(* whether or not an earlier invocation failed.                            *)
(***************************************************************************)
\* the credentials in the environment when invocation i was made
CredentialsOf(i) ==
  [GARMIN_EMAIL |-> calls[i].environment[1],
   GARMIN_PASSWORD |-> calls[i].environment[2]]

\* the request of invocation i, if it sent one, without the invocation's number
RequestContent(i) ==
  {[requests[k] EXCEPT !.call = 0] : k \in RequestsOf(i)}

\* what invocation i was given: the call's parameters, the credentials and
\* the answer so far
GivenTo(i) ==
  <<calls[i].name, calls[i].args, calls[i].environment,
    calls[i].responded, calls[i].statusCode, calls[i].received,
    calls[i].incoming, calls[i].ended, calls[i].errored>>

C14_NoCarryOver ==
  /\ \A i \in DOMAIN calls : \A j \in DOMAIN calls :
       /\ i < j
       /\ calls[i].pc # "idle" /\ calls[j].pc # "idle"
       /\ GivenTo(i) = GivenTo(j)
       /\ ~(calls[i].ended /\ calls[i].errored)
       => /\ RequestContent(i) = RequestContent(j)
          /\ calls[i].pc = calls[j].pc
          /\ calls[i].data = calls[j].data
          /\ calls[i].result = calls[j].result
  /\ \A j \in DOMAIN calls :
       /\ calls[j].pc # "idle"
       /\ KnownTool(j)
       /\ CredentialsPresent(CredentialsOf(j))
       /\ Buildable(calls[j].name, CredentialsOf(j))
       => RequestsOf(j) # {}
  /\ \A j \in DOMAIN calls :
       /\ RequestsOf(j) # {}
       /\ Answered(j)
       /\ TwoXX(calls[j].statusCode)
       /\ JSONParse(ResponseText(j)).ok
       => calls[j].result.kind = "returned" /\ ~calls[j].result.isError

\* the first invocation failed on its answer; the second, with the same name,
\* arguments and credentials, succeeded on another answer
C14_Witness ==
  \E i \in DOMAIN calls : \E j \in DOMAIN calls :
    /\ i < j
    /\ calls[i].name = calls[j].name /\ calls[i].args = calls[j].args
    /\ calls[i].environment = calls[j].environment
    /\ calls[i].pc = "done" /\ calls[i].result.kind = "returned"
    /\ calls[i].result.isError /\ calls[i].statusCode = 500
    /\ calls[j].pc = "done" /\ calls[j].result = Returned(<<"1", "2">>, FALSE)

(***************************************************************************)
(* C15: the catalog entry advertised for get_activities declares the       *)
(* parameter limit as optional with default 20, and start as optional with *)
(* default 0, as the README documents.  The entry of the source declares   *)
(* default 10 for limit: see C15_ActivitiesLimitDefault's trace.           *)
(***************************************************************************)
C15_ActivitiesLimitDefault ==
  listed.kind = "returned" =>
    \A k \in 1..Len(listed.value.tools) :
      LET entry == listed.value.tools[k]
          properties == ValueOf(entry.inputSchema, "properties")
      IN entry.name = "get_activities" =>
           /\ ValueOf(ValueOf(properties, "limit"), "default") = JNum(20)
           /\ ValueOf(ValueOf(properties, "start"), "default") = JNum(0)
           /\ JStr(<<"limit">>) \notin Required(entry)
           /\ JStr(<<"start">>) \notin Required(entry)

(***************************************************************************)
(* C16: an invocation of a known tool with credentials present, whose      *)
(* request was answered (the response ended, no connection error), returns *)
(* a result that is not error-flagged if and only if the status s has      *)
(* 200 <= s < 300 and the complete body parses as JSON; in every other     *)
(* case (s = 199, s = 300 and above, a 2xx answer with an empty or         *)
(* non-JSON body) the result is error-flagged.  An invocation that is over *)
(* without its response having ended is error-flagged too.                 *)
(***************************************************************************)
C16_SuccessIffTwoXXJson ==
  \A i \in DOMAIN calls :
    calls[i].pc # "idle" /\ KnownTool(i) /\ CredentialsPresent(env) =>
      /\ RequestsOf(i) # {} /\ Answered(i) =>
           /\ calls[i].pc = "done"
           /\ calls[i].result.kind = "returned"
           /\ ~calls[i].result.isError <=>
                /\ calls[i].statusCode >= 200
                /\ calls[i].statusCode < 300
                /\ JSONParse(ResponseText(i)).ok
      /\ calls[i].pc = "done" /\ ~calls[i].ended =>
           calls[i].result.kind = "returned" /\ calls[i].result.isError

\* a JSON body came with status 199: the result is error-flagged
C16_Witness ==
  \E i \in DOMAIN calls :
    /\ KnownTool(i) /\ CredentialsPresent(env) /\ Answered(i)
    /\ calls[i].statusCode = 199
    /\ JSONParse(ResponseText(i)).ok
    /\ calls[i].result.kind = "returned" /\ calls[i].result.isError

(***************************************************************************)
(* C17: missing credentials are raised as a thrown condition inside the    *)
(* request helper, before the URL is looked at and before any request      *)
(* object is constructed, and the call-tool handler turns that condition   *)
(* into an error-flagged result with the message 'GARMIN_EMAIL and         *)
(* GARMIN_PASSWORD environment variables are required'; the only failure   *)
(* that leaves the handler as a thrown error is the unknown-tool one.      *)
(***************************************************************************)
C17_MissingCredentialsReturned ==
  \A i \in DOMAIN calls :
    calls[i].pc # "idle" =>
      /\ KnownTool(i) /\ ~CredentialsPresent(env) =>
           /\ apiRequest("POST", JSString(EndpointText(calls[i].name)),
                         HandlerBody(calls[i].args), env, API_BASE_URL, API_KEY)
                = [kind |-> "throw",
                   message |-> <<"GARMIN_EMAIL and GARMIN_PASSWORD environment variables are required">>]
           /\ calls[i].pc = "done"
           /\ calls[i].result =
                Returned(ErrorText(<<"GARMIN_EMAIL and GARMIN_PASSWORD environment variables are required">>),
                         TRUE)
           /\ RequestsOf(i) = {}
      /\ calls[i].result.kind = "thrown" =>
           /\ calls[i].result.message = <<"Unknown tool: ", calls[i].name>>
           /\ ~KnownTool(i)
           /\ RequestsOf(i) = {}

\* the password is empty and the base URL is no URL: the invocation of a
\* declared tool returned the missing-credentials result
C17_Witness ==
  \E i \in DOMAIN calls :
    /\ KnownTool(i)
    /\ env.GARMIN_PASSWORD = EmptyString
    /\ ~ParseURL(API_BASE_URL \o EndpointText(calls[i].name)).ok
    /\ calls[i].result.kind = "returned"
    /\ calls[i].result.isError
    /\ ErrorMessageOf(calls[i].result) = MissingCredentialsMessage

(***************************************************************************)
(* C18: the credentials are read from the environment anew by every        *)
(* invocation and never cached: an invocation uses the GARMIN_EMAIL and    *)
(* GARMIN_PASSWORD that are current when it is made, also after they       *)
(* changed or became set or unset since an earlier invocation.  The base   *)
(* URL and the API key are those of the environment at process start and   *)
(* the same for every invocation, whatever the environment says later.     *)
(***************************************************************************)
C18_CredentialsReadPerCall ==
  /\ API_BASE_URL = IF env.GARMIN_API_URL \in {Undefined, EmptyString}
                      THEN DefaultBaseUrl ELSE env.GARMIN_API_URL
  /\ API_KEY = IF env.API_KEY \in {Undefined, EmptyString}
                 THEN EmptyString ELSE env.API_KEY
  /\ [][ /\ API_BASE_URL' = API_BASE_URL
         /\ API_KEY' = API_KEY
         /\ \A i \in DOMAIN calls :
              calls[i].pc = "idle" /\ calls'[i].pc # "idle"
              /\ calls'[i].name \in MapKeys =>
                IF CredentialsPresent(env)
                  THEN /\ Len(requests') = Len(requests) + 1
                       /\ LET r == requests'[Len(requests')]
                          IN /\ r.call = i
                             /\ r.headers["X-Garmin-Email"] = env.GARMIN_EMAIL
                             /\ r.headers["X-Garmin-Password"] = env.GARMIN_PASSWORD
                             /\ TargetOf(r) =
                                  API_BASE_URL \o EndpointText(calls'[i].name)
                             /\ "X-API-Key" \in DOMAIN r.headers
                                  <=> API_KEY # EmptyString
                             /\ "X-API-Key" \in DOMAIN r.headers =>
                                  r.headers["X-API-Key"] = API_KEY
                  ELSE /\ requests' = requests
                       /\ calls'[i].result =
                            Returned(ErrorText(MissingCredentialsMessage), TRUE)
       ]_vars

\* two invocations sent different credentials to the same URL, the second
\* one after the environment got a URL and a key that the process does not use;
\* then the email was unset
C18_Witness ==
  /\ Len(requests) = 2
  /\ requests[1].headers["X-Garmin-Email"] = <<"user@example.com">>
  /\ requests[2].headers["X-Garmin-Email"] = <<"other@example.com">>
  /\ requests[2].headers["X-Garmin-Password"] = <<"hunter2">>
  /\ TargetOf(requests[1]) = TargetOf(requests[2])
  /\ "X-API-Key" \notin DOMAIN requests[2].headers
  /\ API_BASE_URL = DefaultBaseUrl
  /\ env.GARMIN_EMAIL = Undefined

(***************************************************************************)
(* C19: when every outbound request eventually delivers its complete       *)
(* response or emits a connection error, every call-tool invocation        *)
(* eventually returns, and it returns one result, which never changes.     *)
(* An invocation that waits is completed by the end event or the error     *)
(* event of its own request and by nothing else: the code sets no timeout  *)
(* and has no cancellation, so with no answer the invocation stays pending.*)
(***************************************************************************)
C19_EventuallyOneResult ==
  /\ \A i \in 1..MaxSessionCalls :
       (calls[i].pc = "waiting") ~> (calls[i].pc = "done")
  /\ [][ \A i \in DOMAIN calls :
           /\ calls[i].pc # "done" => calls[i].result = NoResult
           /\ calls[i].pc = "done" =>
                calls'[i].pc = "done" /\ calls'[i].result = calls[i].result
           /\ calls'[i].pc = "done" => calls'[i].result # NoResult
           /\ calls[i].pc = "waiting" /\ calls'[i].pc # "waiting" =>
                \/ ~calls[i].ended /\ calls'[i].ended
                \/ ~calls[i].errored /\ calls'[i].errored
     ]_vars

\* both invocations waited for their answers and returned, one on the end of
\* its response and one on a connection error
C19_Witness ==
  /\ \A i \in DOMAIN calls : calls[i].pc = "done" /\ RequestsOf(i) # {}
  /\ \E i \in DOMAIN calls : calls[i].ended /\ ~calls[i].errored
  /\ \E i \in DOMAIN calls : calls[i].errored /\ ~calls[i].ended

(***************************************************************************)
(* C20: when invocations overlap, with the chunks and the end and error    *)
(* events of their responses interleaved in any order, every invocation    *)
(* accumulates the chunks of its own response only, in arrival order; an   *)
(* event of one response changes nothing of another invocation; an         *)
(* invocation has no result before its own end or error event, and the     *)
(* end event comes with the whole body accumulated; the result of an       *)
(* answered invocation is the one its own status and its own accumulated   *)
(* text give.                                                              *)
(***************************************************************************)
\* the result that a status and an accumulated text give at the end event
ResultOfAnswer(statusCode, text) ==
  LET parsed == JSONParse(text)
  IN IF parsed.ok /\ statusCode >= 200 /\ statusCode < 300
       THEN Returned(StringifyPretty(parsed.val), FALSE)
       ELSE IF parsed.ok
         THEN Returned(ErrorText(<<"API Error (">> \o NumberToString(statusCode)
                                 \o <<"): ">> \o StringifyCompact(parsed.val)), TRUE)
         ELSE Returned(ErrorText(<<"Failed to parse response: ">> \o text), TRUE)

C20_OwnResponseOnly ==
  /\ [](\A i \in DOMAIN calls :
          /\ calls[i].pc = "waiting" => calls[i].result = NoResult
          /\ calls[i].ended => calls[i].incoming = <<>>
          /\ RequestsOf(i) # {} /\ Answered(i) =>
               calls[i].result = ResultOfAnswer(calls[i].statusCode, calls[i].data))
  /\ [][ \A i \in DOMAIN calls :
           /\ calls'[i].data # calls[i].data /\ calls[i].responded =>
                \E n \in 1..Len(calls[i].incoming) :
                  LET chunk == SubSeq(calls[i].incoming, 1, n)
                  IN /\ calls'[i].data = calls[i].data \o BufferToString(chunk)
                     /\ calls'[i].received = calls[i].received \o chunk
                     /\ calls'[i].received \o calls'[i].incoming
                          = calls[i].received \o calls[i].incoming
           /\ calls'[i] # calls[i] =>
                \A j \in DOMAIN calls \ {i} : calls'[j] = calls[j]
     ]_vars

\* two responses are under way at once, each with one chunk delivered
C20_Witness ==
  \E i \in DOMAIN calls : \E j \in DOMAIN calls :
    /\ calls[i].pc = "waiting" /\ calls[j].pc = "waiting"
    /\ calls[i].data = <<"1">> /\ calls[i].incoming = <<"2">>
    /\ calls[j].data = <<"{">> /\ calls[j].incoming = <<"}">>

(***************************************************************************)
(* C21: the outcome of an invocation is decided exactly once.  After the   *)
(* end event of the response has resolved or rejected the request, a later *)
(* connection error of the same request does not change the result; after  *)
(* a connection error has rejected it, a later end event does not turn the *)
(* result into a success; a result, once returned, stays as it is.         *)
(***************************************************************************)
C21_DecidedOnce ==
  [][ \A i \in DOMAIN calls :
        /\ calls[i].result # NoResult =>
             calls'[i].result = calls[i].result /\ calls'[i].pc = "done"
        /\ calls[i].ended /\ ~calls[i].errored /\ calls'[i].errored =>
             calls'[i].result = calls[i].result /\ calls[i].pc = "done"
        /\ calls[i].errored /\ ~calls[i].ended /\ calls'[i].ended =>
             /\ calls'[i].result = calls[i].result
             /\ calls'[i].result.kind = "returned"
             /\ calls'[i].result.isError
        /\ calls'[i].pc = "done" <=> calls'[i].result # NoResult
    ]_vars

\* a connection error came first and the response with status 200 and a JSON
\* body ended afterwards: the result is still the connection error
C21_Witness ==
  \E i \in DOMAIN calls :
    /\ calls[i].errored /\ calls[i].ended
    /\ calls[i].statusCode = 200
    /\ JSONParse(calls[i].data).ok
    /\ calls[i].result = Returned(ErrorText(<<"socket hang up">>), TRUE)

(***************************************************************************)
(* C22: the unknown-tool check comes before the credential check: an       *)
(* invocation with a name that is no key of the endpoint map, made while   *)
(* the credentials are missing, ends with the "Unknown tool" condition and *)
(* not with the missing-credentials failure.  The code does not do this    *)
(* for the names Object.prototype has (C1): see                            *)
(* C22_UnknownToolBeforeCredentials's trace.                               *)
(***************************************************************************)
C22_UnknownToolBeforeCredentials ==
  \A i \in DOMAIN calls :
    calls[i].pc # "idle" /\ ~KnownTool(i) /\ ~CredentialsPresent(env) =>
      /\ calls[i].result = Thrown(<<"Unknown tool: ", calls[i].name>>)
      /\ calls[i].result # Returned(ErrorText(MissingCredentialsMessage), TRUE)

====
